---------------------------- MODULE Spec2Model ----------------------------
(***************************************************************************)
(* Model of the retrieval and recommendation engine of                     *)
(* dinus_research_recommendation_system:                                   *)
(*   src/src/research_reco/bm25.py              build_bm25_index,          *)
(*                                               bm25_search               *)
(*   src/src/research_reco/recommend.py         recommend_citations        *)
(*   src/src/research_reco/query_expansion.py   expand_query_from_top_docs *)
(*                                                                         *)
(* Python floats are modelled in fixed point: a score s is the integer     *)
(* floor(s * SCALE).  The 1e-9 guards the code adds to its denominators    *)
(* are below that resolution and are left out where the denominator is     *)
(* positive; where the guard decides a comparison (the Jaccard test) it is *)
(* modelled exactly.                                                       *)
(*                                                                         *)
(* Python's None, and a key missing from a dict that the code reads with   *)
(* .get(), are both the value None.  Text fields that the code only        *)
(* tokenises (judul, keyword) are the sequence of their words; a date      *)
(* (tanggal) is the sequence of its characters.  An absent or empty text   *)
(* field is the empty sequence: the code treats None and "" alike there    *)
(* ("if not keyword", "item.get('judul') or ''", "if not tanggal").        *)
(***************************************************************************)
EXTENDS Integers, Sequences, FiniteSets, TLC

VARIABLES
    docs_tokens,   \* the token lists handed to build_bm25_index
    docs_meta,     \* the metadata list handed to build_bm25_index
    built,         \* "none" | "ok" | "error": outcome of build_bm25_index
    index,         \* the shared BM25Index (EmptyIndex until built)
    docs_by_id,    \* the document store DOCS_BY_ID: doc_id -> processed doc
    sup_profiles,  \* SUP_PROFILES: the supervisor profiles (None until built)
    tasks,         \* the requests served concurrently, one record per thread
    call           \* the request being served: operation, arguments, result

vars == <<docs_tokens, docs_meta, built, index, docs_by_id, sup_profiles, tasks, call>>

-----------------------------------------------------------------------------
(* Bounds of the model *)

MaxDocs == 3        \* documents in a corpus
MaxQueryLen == 2    \* tokens in a query
MaxTopK == 3        \* largest top_k requested
MaxExpand == 2      \* largest max_expand requested
MaxHits == 2        \* hits handed to expand_query_from_top_docs
DilutedCount == 4   \* supervisors of the diluted corpus holding "fuzzy"
DilutingTerms == 14 \* distinct terms of its own a diluted supervisor has
DilutingCount == 3  \* occurrences of each of them
MaxWideTopK == 5    \* largest top_k requested of the five-document corpus
SharedTermCount == 19   \* terms every supervisor of the wordy corpus has
FewOwnTerms == 3    \* terms of its own the first wordy supervisor has
ManyOwnTerms == 21  \* terms of its own the second wordy supervisor has

(* Program constants *)

SCALE == 10000          \* fixed-point unit of a Python float
K1Num == 3              \* k1 = 1.5 = K1Num / K1Den
K1Den == 2
BNum == 3               \* b = 0.75 = BNum / BDen
BDen == 4
KeywordBonus == 1500    \* 0.15 per shared keyword
YearBase == 2018
YearBonus == 100        \* 0.01 per year after YearBase
CandidateFactor == 4    \* bm25_search(top_k = top_k * 4)
JaccNum == 13           \* Jaccard threshold 0.65 = JaccNum / JaccDen
JaccDen == 20
MinDfInTopDocs == 2     \* min_df_in_top_docs
MinIdf == 3500          \* min_idf = 0.35
WeightScale == 1000     \* fixed-point unit of a supervisor weight
SimScale == 1000        \* fixed-point unit of a similarity
TopTermsIdfCutoff == 1500   \* idf_cutoff = 0.15
TopTermsPool == 25      \* sorted(...)[:25]
TopTermsMin == 8        \* "if len(top_terms_scored) < 8"
TopTermsKeep == 20      \* top_terms_scored[:20]
AnchorTopN == 2         \* anchor_top_n
AnchorIdfMin == 6500    \* anchor_idf_min = 0.65
GenericDownweightNum == 35  \* generic_downweight = 0.35
GenericDownweightDen == 100
MatchedBonus == 30      \* 0.03 per matched term
MinSimilarity == 80     \* min_similarity = 0.08
RelCutoffNum == 35      \* rel_cutoff = 0.35
RelCutoffDen == 100
ApiSupervisorCap == 20  \* top_k=min(req.top_k, 20)
ReqTopKDefault == 10    \* QueryReq.top_k: Field(10, ...)
ReqTopKMax == 50        \* QueryReq.top_k: le=50
PipelinePoolMin == 25   \* bm25_search(top_k=max(25, req.top_k * 3))
PipelinePoolFactor == 3
PipelineMaxExpand == 8  \* max_expand=8
PipelineTopDocs == 8    \* top_docs=8

None == "None"

-----------------------------------------------------------------------------
(* Generic helpers: Python list and dict idioms *)

Min(a, b) == IF a <= b THEN a ELSE b
Max(a, b) == IF a >= b THEN a ELSE b

Range(seq) == {seq[i] : i \in DOMAIN seq}

RECURSIVE SelectIdx(_, _, _)
\* the elements of seq at the indices in keep, from index i on, in order
SelectIdx(seq, keep, i) ==
    IF i > Len(seq) THEN <<>>
    ELSE (IF i \in keep THEN <<seq[i]>> ELSE <<>>) \o SelectIdx(seq, keep, i + 1)

\* the keys of a dict filled by d[k] = d.get(k, 0) + 1 over seq: insertion order
FirstOccurrences(seq) ==
    SelectIdx(seq, {i \in DOMAIN seq : \A j \in 1..(i - 1) : seq[j] # seq[i]}, 1)

\* seq[:k], for k of either sign
Slice(seq, k) ==
    IF k >= 0 THEN SubSeq(seq, 1, Min(k, Len(seq)))
    ELSE SubSeq(seq, 1, Max(0, Len(seq) + k))

\* sorted(seq, key, reverse=True): descending and stable; key[i] is seq[i]'s key
StableSortDesc(seq, key) ==
    LET n == Len(seq)
        pos(i) == Cardinality({j \in 1..n : \/ key[j] > key[i]
                                            \/ key[j] = key[i] /\ j < i}) + 1
    IN  IF n = 0 THEN <<>>
        ELSE [p \in 1..n |-> seq[CHOOSE i \in 1..n : pos(i) = p]]

RECURSIVE SumSeq(_)
SumSeq(s) == IF s = <<>> THEN 0 ELSE Head(s) + SumSeq(Tail(s))

Count(seq, x) == Cardinality({i \in DOMAIN seq : seq[i] = x})

RECURSIVE AtanhSeries(_, _, _)
\* sum over k of z^(2k+1) / (2k+1), term = z^(2k+1) in fixed point
AtanhSeries(term, z2, k) ==
    IF term = 0 \/ k > 12 THEN 0
    ELSE (term \div (2 * k + 1)) + AtanhSeries((term * z2) \div SCALE, z2, k + 1)

\* math.log(p / q) for p >= q > 0, in fixed point: ln x = 2 atanh((x-1)/(x+1))
Ln(p, q) ==
    LET z == ((p - q) * SCALE) \div (p + q)
    IN  2 * AtanhSeries(z, (z * z) \div SCALE, 0)

\* str.lower() on the words of the model
Lower(w) ==
    CASE w = "Fuzzy" -> "fuzzy"
      [] w = "Logic" -> "logic"
      [] w = "SVM" -> "svm"
      [] OTHER -> w

\* str(s).strip() == ""
IsBlank(s) == s \in {"", " ", "  "}

-----------------------------------------------------------------------------
(* bm25.py: build_bm25_index *)

\* "for t in toks: if not t: continue; tf[t] = tf.get(t, 0) + 1": the keys of tf
DocTerms(toks) == Range(toks) \ {""}

Vocab(dt) == UNION {DocTerms(dt[i]) : i \in DOMAIN dt}

RECURSIVE Postings_PerToken(_, _)
\* faulty variant: one (doc index, 1) pair per occurrence of t, not per document
Postings_PerToken(dt, t) ==
    IF dt = <<>> THEN <<>>
    ELSE LET n == Len(dt)
             last == dt[n]
         IN  Postings_PerToken(SubSeq(dt, 1, n - 1), t)
             \o [k \in 1..Count(last, t) |-> <<n - 1, 1>>]

\* postings[t]: one (doc index, tf) pair per document holding t, in document order
Postings(dt, t) ==
    LET all == [i \in DOMAIN dt |-> <<i - 1, Count(dt[i], t)>>]
    IN  SelectIdx(all, {i \in DOMAIN dt : t \in DocTerms(dt[i])}, 1)

\* vocab_df[t] = vocab_df.get(t, 0) + 1, once per document whose tf holds t
VocabDf(dt, t) == Cardinality({i \in DOMAIN dt : t \in DocTerms(dt[i])})

\* faulty variant: the idf without the "1 +", ln((N - df + 0.5) / (df + 0.5))
Idf_Classic(N, df) == IF N = 0 THEN 0 ELSE Ln(2 * N - 2 * df + 1, 2 * df + 1)

\* idf[t] = math.log(1 + (N - df + 0.5) / (df + 0.5)) if N else 0.0
Idf(N, df) == IF N = 0 THEN 0 ELSE Ln(2 * N + 2, 2 * df + 1)

\* faulty variant: empty tokens are left out of the length
DocLen_NonEmpty(dt) ==
    [i \in DOMAIN dt |-> Len(SelectSeq(dt[i], LAMBDA t : t # ""))]

\* doc_len = [len(toks) for toks in docs_tokens]
DocLen(dt) == [i \in DOMAIN dt |-> Len(dt[i])]

\* avgdl = (sum(doc_len) / N) if N else 0.0, kept as the fraction num / den
AvgDl(dt) ==
    IF Len(dt) = 0 THEN [num |-> 0, den |-> 1]
    ELSE [num |-> SumSeq(DocLen(dt)), den |-> Len(dt)]

EmptyIndex ==
    [vocab_df |-> <<>>, idf |-> <<>>, doc_len |-> <<>>,
     avgdl |-> [num |-> 0, den |-> 1], postings |-> <<>>, docs_meta |-> <<>>]

\* faulty variant: only a metadata list shorter than the token list is rejected
LengthsDiffer_Lenient(dt, dm) == Len(dm) < Len(dt)

\* "if len(docs_meta) != N"
LengthsDiffer(dt, dm) == Len(dm) # Len(dt)

\* the BM25Index the constructor call returns
MakeIndex(dt, dm) ==
    LET V == Vocab(dt)
        post == [t \in V |-> Postings(dt, t)]
        df == [t \in V |-> VocabDf(dt, t)]
    IN  [vocab_df |-> df,
         idf |-> [t \in V |-> Idf(Len(dt), df[t])],
         doc_len |-> DocLen(dt),
         avgdl |-> AvgDl(dt),
         postings |-> post,
         docs_meta |-> dm]

\* build_bm25_index(docs_tokens, docs_meta): the index, or the ValueError raised
build_bm25_index(dt, dm) ==
    IF LengthsDiffer(dt, dm)
    THEN [raised |-> "ValueError", index |-> EmptyIndex]
    ELSE [raised |-> None, index |-> MakeIndex(dt, dm)]

-----------------------------------------------------------------------------
(* bm25.py: bm25_search *)

\* faulty variant: a repeated query token is iterated once per occurrence
QTerms_Repeated(query_tokens) == SelectSeq(query_tokens, LAMBDA t : t # "")

\* q_terms: the distinct non-empty query tokens, in order of first occurrence
QTerms(query_tokens) ==
    FirstOccurrences(SelectSeq(query_tokens, LAMBDA t : t # ""))

\* index.postings.get(term), an absent term giving the empty list
PostingsOf(idx, term) ==
    IF term \in DOMAIN idx.postings THEN idx.postings[term] ELSE <<>>

\* tf of term in document d, 0 when d is not in the term's postings
PostingTf(idx, term, d) ==
    LET pl == PostingsOf(idx, term)
        S == {k \in DOMAIN pl : pl[k][1] = d}
    IN  IF S = {} THEN 0 ELSE pl[CHOOSE k \in S : TRUE][2]

\* faulty variant: dl is read one slot early (the previous document's length)
TermScore_NeighbourLen(idx, term, d, tf) ==
    LET dl == idx.doc_len[Max(d, 1)]
        sum == idx.avgdl.num
        N == idx.avgdl.den
        numer == tf * (K1Num + K1Den) * BDen * sum
        denom == tf * K1Den * BDen * sum
                 + K1Num * ((BDen - BNum) * sum + BNum * dl * N)
    IN  (idx.idf[term] * numer) \div denom

\* idf * (tf * (k1 + 1) / (tf + k1 * (1 - b + b * dl / avgdl)))
TermScore(idx, term, d, tf) ==
    LET dl == idx.doc_len[d + 1]
        sum == idx.avgdl.num
        N == idx.avgdl.den
        numer == tf * (K1Num + K1Den) * BDen * sum
        denom == tf * K1Den * BDen * sum
                 + K1Num * ((BDen - BNum) * sum + BNum * dl * N)
    IN  (idx.idf[term] * numer) \div denom

RECURSIVE DocScore(_, _, _)
\* scores[d]: the sum over the query terms whose postings hold d
DocScore(idx, qterms, d) ==
    IF qterms = <<>> THEN 0
    ELSE LET tf == PostingTf(idx, Head(qterms), d)
         IN  (IF tf = 0 THEN 0 ELSE TermScore(idx, Head(qterms), d, tf))
             + DocScore(idx, Tail(qterms), d)

RECURSIVE HitOrder(_, _)
\* the documents in the order the scoring loop meets them
HitOrder(idx, qterms) ==
    IF qterms = <<>> THEN <<>>
    ELSE LET pl == PostingsOf(idx, Head(qterms))
         IN  [k \in DOMAIN pl |-> pl[k][1]] \o HitOrder(idx, Tail(qterms))

\* faulty variant: a document is listed once per query term that hits it
Candidates_Dup(idx, query_tokens) == HitOrder(idx, QTerms(query_tokens))

\* list(scores.keys()): the candidate documents, in insertion order
Candidates(idx, query_tokens) ==
    FirstOccurrences(HitOrder(idx, QTerms(query_tokens)))

\* faulty variant: equal scores come out in the reverse of their insertion order
Ranked_TiesReversed(idx, query_tokens) ==
    LET cand == Candidates(idx, query_tokens)
        n == Len(cand)
        rev == [i \in 1..n |-> cand[n + 1 - i]]
        key == [i \in 1..n |-> DocScore(idx, QTerms(query_tokens), rev[i])]
    IN  StableSortDesc(rev, key)

\* sorted(scores.items(), key=score, reverse=True)
Ranked(idx, query_tokens) ==
    LET cand == Candidates(idx, query_tokens)
        key == [i \in DOMAIN cand |-> DocScore(idx, QTerms(query_tokens), cand[i])]
    IN  StableSortDesc(cand, key)

NoWords == <<>>

\* faulty variant: a blank doc_id is kept, only a missing one is replaced
ResultDocId_NoneOnly(meta_id, d) ==
    IF meta_id = None THEN "doc_" \o ToString(d) ELSE meta_id

\* the doc_id of a result: the metadata's, or doc_{index} when missing or blank
ResultDocId(meta_id, d) ==
    IF meta_id = None \/ IsBlank(meta_id) THEN "doc_" \o ToString(d) ELSE meta_id

\* the dict appended to out for document d with its score: the fields of the
\* metadata m (or none), plus doc_idx, score and doc_id
ItemFromMeta(m, d, score, include_meta) ==
    [doc_idx |-> d,
     score |-> score,
     doc_id |-> ResultDocId(IF include_meta THEN m.doc_id ELSE None, d),
     judul |-> IF include_meta THEN m.judul ELSE NoWords,
     keyword |-> IF include_meta THEN m.keyword ELSE NoWords,
     tanggal |-> IF include_meta THEN m.tanggal ELSE NoWords,
     url |-> IF include_meta THEN m.url ELSE None]

\* one result: a copy of the metadata (or {}), plus doc_idx, score and doc_id
SearchItem(idx, qterms, d, include_meta) ==
    ItemFromMeta(idx.docs_meta[d + 1], d, DocScore(idx, qterms, d), include_meta)

\* faulty variant: the ranking is not cut at top_k
TopOf_NoCap(ranked, top_k) == ranked

\* ranked[:top_k]
TopOf(ranked, top_k) == Slice(ranked, top_k)

\* faulty variant: dense scoring, every document ranked whatever the query
bm25_search_Dense(idx, query_tokens, top_k, include_meta) ==
    LET all == [i \in DOMAIN idx.doc_len |-> i - 1]
        key == [i \in DOMAIN all |-> DocScore(idx, QTerms(query_tokens), all[i])]
        top == TopOf(StableSortDesc(all, key), top_k)
    IN  IF top = <<>> THEN <<>>
        ELSE [i \in DOMAIN top |->
                SearchItem(idx, QTerms(query_tokens), top[i], include_meta)]

\* bm25_search(index, query_tokens, top_k, include_meta): the result list
bm25_search(idx, query_tokens, top_k, include_meta) ==
    IF query_tokens = <<>> THEN <<>>
    ELSE LET top == TopOf(Ranked(idx, query_tokens), top_k)
         IN  IF top = <<>> THEN <<>>
             ELSE [i \in DOMAIN top |->
                     SearchItem(idx, QTerms(query_tokens), top[i], include_meta)]

RECURSIVE AddPostings_Overwrite(_, _, _, _)
\* faulty variant: the term's score replaces what the document had
AddPostings_Overwrite(idx, term, pl, scores) ==
    IF pl = <<>> THEN scores
    ELSE LET d == Head(pl)[1]
             tf == Head(pl)[2]
         IN  AddPostings_Overwrite(idx, term, Tail(pl),
                 [scores EXCEPT ![d + 1] = TermScore(idx, term, d, tf)])

RECURSIVE AddPostings(_, _, _, _)
\* "for doc_idx, tf in plist: scores[doc_idx] += idf * (...)"
AddPostings(idx, term, pl, scores) ==
    IF pl = <<>> THEN scores
    ELSE LET d == Head(pl)[1]
             tf == Head(pl)[2]
         IN  AddPostings(idx, term, Tail(pl),
                 [scores EXCEPT ![d + 1] = @ + TermScore(idx, term, d, tf)])

RECURSIVE DenseScores(_, _, _)
\* "for term in q_terms.keys()": the dense score list after the given terms
DenseScores(idx, qterms, scores) ==
    IF qterms = <<>> THEN scores
    ELSE DenseScores(idx, Tail(qterms),
             AddPostings(idx, Head(qterms), PostingsOf(idx, Head(qterms)), scores))

\* BM25Index.get_scores(query_tokens): one score per document
get_scores(idx, query_tokens) ==
    LET N == Len(idx.docs_meta)
        zeros == [i \in 1..N |-> 0]
    IN  IF N = 0 \/ query_tokens = <<>> THEN zeros
        ELSE DenseScores(idx, QTerms(query_tokens), zeros)

-----------------------------------------------------------------------------
(* recommend.py: recommend_citations *)

\* set([t.lower() for t in query_tokens if t])
QSet(query_tokens) == {Lower(t) : t \in Range(query_tokens) \ {""}}

\* 0.15 * len(query_tokens & kw_tokens), 0.0 without keywords
_keyword_overlap_bonus(qset, keyword) ==
    IF keyword = NoWords THEN 0
    ELSE KeywordBonus * Cardinality(qset \cap {Lower(w) : w \in Range(keyword)})

\* str.isdigit() of one character, as the digit's value (-1: not a digit)
DigitOf(c) ==
    CASE c = "0" -> 0 [] c = "1" -> 1 [] c = "2" -> 2 [] c = "3" -> 3
      [] c = "4" -> 4 [] c = "5" -> 5 [] c = "6" -> 6 [] c = "7" -> 7
      [] c = "8" -> 8 [] c = "9" -> 9 [] OTHER -> 0 - 1

RECURSIVE Strip(_)
\* str.strip() of a character sequence
Strip(cs) ==
    IF cs = <<>> THEN <<>>
    ELSE IF Head(cs) = " " THEN Strip(Tail(cs))
    ELSE IF cs[Len(cs)] = " " THEN Strip(SubSeq(cs, 1, Len(cs) - 1))
    ELSE cs

\* max(0.0, int(tgl[:4]) - 2018) * 0.01 when tgl starts with four digits
_year_freshness_bonus(tanggal) ==
    LET tgl == Strip(tanggal)
    IN  IF tanggal = <<>> THEN 0
        ELSE IF Len(tgl) >= 4 /\ \A i \in 1..4 : DigitOf(tgl[i]) >= 0
        THEN LET year == 1000 * DigitOf(tgl[1]) + 100 * DigitOf(tgl[2])
                         + 10 * DigitOf(tgl[3]) + DigitOf(tgl[4])
             IN  Max(0, year - YearBase) * YearBonus
        ELSE 0

\* the words of a title, lower-cased, as a set
_title_tokens(title) == {Lower(w) : w \in Range(title)}

\* faulty variant: only identical title token sets count as similar
TooSimilar_SameOnly(tt, prev) == tt = prev

\* len(tt & prev) / (len(tt | prev) + 1e-9) >= 0.65
TooSimilar(tt, prev) ==
    JaccDen * Cardinality(tt \cap prev) > JaccNum * Cardinality(tt \cup prev)

\* the enriched item: score2 = score + bonuses.  snippet and explain are left
\* out: the index metadata carries no abstrak and the index no per-document
\* term frequencies, so both are the same for every item.
Enrich(item, query_tokens) ==
    item @@ [score2 |-> item.score
                        + _keyword_overlap_bonus(QSet(query_tokens), item.keyword)
                        + _year_freshness_bonus(item.tanggal)]

\* base after the enrich loop and base.sort(key=score2, reverse=True)
RerankHits(hits, query_tokens) ==
    LET base == [i \in DOMAIN hits |-> Enrich(hits[i], query_tokens)]
    IN  IF hits = <<>> THEN <<>>
        ELSE StableSortDesc(base, [i \in DOMAIN base |-> base[i].score2])

\* faulty variant: the pool is the max(30, top_k * 5) best hits
RerankedPool_Wide(idx, query_tokens, top_k) ==
    RerankHits(bm25_search(idx, query_tokens, Max(30, top_k * 5), TRUE),
               query_tokens)

\* the candidate pool, enriched and sorted by score2, descending
RerankedPool(idx, query_tokens, top_k) ==
    RerankHits(bm25_search(idx, query_tokens, top_k * CandidateFactor, TRUE),
               query_tokens)

\* faulty variant: the selection loop never breaks
Full_NeverFull(selected, top_k) == FALSE

\* "if len(selected) >= top_k: break"
Full(selected, top_k) == Len(selected) >= top_k

RECURSIVE Diversify(_, _, _, _, _)
\* the selection loop over base[i..], with what was selected and seen so far
Diversify(base, i, selected, seen, top_k) ==
    IF i > Len(base) THEN selected
    ELSE LET item == base[i]
             tt == _title_tokens(item.judul)
             similar == \E k \in DOMAIN seen : TooSimilar(tt, seen[k])
             keep == tt = {} \/ ~similar
             selected2 == IF keep THEN Append(selected, item) ELSE selected
             seen2 == IF tt # {} /\ keep THEN Append(seen, tt) ELSE seen
         IN  IF Full(selected2, top_k) THEN selected2
             ELSE Diversify(base, i + 1, selected2, seen2, top_k)

\* faulty variant: the slice is one item short
Undiversified_Short(base, top_k) == Slice(base, top_k - 1)

\* "if not diversify: return base[:top_k]"
Undiversified(base, top_k) == Slice(base, top_k)

\* what is returned of the sorted base: base[:top_k], or the selection loop
SelectCitations(base, top_k, diversify) ==
    IF ~diversify THEN Undiversified(base, top_k)
    ELSE Diversify(base, 1, <<>>, <<>>, top_k)

\* recommend_citations(index, query_tokens, top_k, diversify): the result list
recommend_citations(idx, query_tokens, top_k, diversify) ==
    SelectCitations(RerankedPool(idx, query_tokens, top_k), top_k, diversify)

-----------------------------------------------------------------------------
(* query_expansion.py: expand_query_from_top_docs *)

GENERIC_TERMS ==
    {"penelitian", "analisis", "sistem", "metode", "model", "algoritma",
     "menggunakan", "berbasis", "dengan", "untuk", "pada", "dalam", "terhadap",
     "pengembangan", "penerapan", "perancangan", "implementasi", "pengujian",
     "uji", "hasil", "kinerja", "tingkat", "meningkatkan", "akurasi",
     "studi", "kasus", "data", "dataset", "fitur", "seleksi", "optimasi",
     "evaluasi", "perbandingan", "rekomendasi", "pemilihan", "program",
     "jadi", "sesuai", "kemampuan", "universitas", "dian", "nuswantoro",
     "mahasiswa", "s1", "prodi", "teknik", "informatika", "jalur", "peminatan",
     "indeks", "index", "series", "tree",
     "study", "analysis", "system", "method", "methods", "models",
     "algorithm", "algorithms", "approach", "using", "based",
     "feature", "features", "evaluation", "performance",
     "application", "implementation", "design"}

\* the idf argument: None (given = FALSE) or a dict (given = TRUE)
NoIdf == [given |-> FALSE, table |-> <<>>]

\* "if not doc_id: continue" and "if not doc: continue" both pass
Resolves(store, h) ==
    h.doc_id # None /\ h.doc_id # "" /\ h.doc_id \in DOMAIN store

\* faulty variant: a hit that does not resolve uses up no top_docs slot
ScannedHits_SkipFree(store, initial_hits, top_docs) ==
    Slice(SelectSeq(initial_hits, LAMBDA h : Resolves(store, h)), top_docs)

\* the hits of initial_hits[:top_docs] that resolve to a document ("used" of them)
ScannedHits(store, initial_hits, top_docs) ==
    SelectSeq(Slice(initial_hits, top_docs), LAMBDA h : Resolves(store, h))

\* a token the scan counts: non-empty, longer than 2, no query term, not generic
CandidateToken(t, qset) ==
    t # "" /\ Len(t) > 2 /\ t \notin qset /\ t \notin GENERIC_TERMS

DocCandidates(store, h, qset) ==
    SelectSeq(store[h.doc_id].tokens, LAMBDA t : CandidateToken(t, qset))

RECURSIVE ConcatAll(_)
ConcatAll(ss) == IF ss = <<>> THEN <<>> ELSE Head(ss) \o ConcatAll(Tail(ss))

\* list(tf.keys()): the counted terms in insertion order
TermOrder(store, scanned, qset) ==
    IF scanned = <<>> THEN <<>>
    ELSE FirstOccurrences(
             ConcatAll([i \in DOMAIN scanned |-> DocCandidates(store, scanned[i], qset)]))

\* tf[t]: occurrences of t over the scanned hits
ExpTf(store, scanned, qset, t) ==
    SumSeq([i \in DOMAIN scanned |-> Count(DocCandidates(store, scanned[i], qset), t)])

\* df[t]: scanned hits whose document holds t
ExpDf(store, scanned, qset, t) ==
    Cardinality({i \in DOMAIN scanned :
                    t \in Range(DocCandidates(store, scanned[i], qset))})

\* float(idf.get(t, 0.0)) if idf else 0.0
TermIdf(idf, t) ==
    IF idf.given /\ t \in DOMAIN idf.table THEN idf.table[t] ELSE 0

\* faulty variant: the document-frequency filter is missing
Survives_AnyDf(idf, t, dfi) == idf.given => TermIdf(idf, t) >= MinIdf

\* neither "dfi < min_df_in_top_docs" nor "idf is not None and term_idf < min_idf"
Survives(idf, t, dfi) ==
    /\ dfi >= MinDfInTopDocs
    /\ idf.given => TermIdf(idf, t) >= MinIdf

\* c * log(1 + dfi), times max(0, term_idf) when idf is given
ExpScore(idf, t, c, dfi) ==
    LET s == c * Ln(1 + dfi, 1)
    IN  IF idf.given THEN (s * Max(0, TermIdf(idf, t))) \div SCALE ELSE s

\* faulty variant: the expansion is not cut at max_expand
TakeExpansion_All(sorted, max_expand) == sorted

\* scored[:max_expand]
TakeExpansion(sorted, max_expand) == Slice(sorted, max_expand)

\* the terms appended to the query (empty when the code returns query_tokens)
Expansion(store, initial_hits, query_tokens, max_expand, top_docs, idf) ==
    LET qset == Range(query_tokens)
        scanned == ScannedHits(store, initial_hits, top_docs)
        order == TermOrder(store, scanned, qset)
        kept == SelectSeq(order,
                    LAMBDA t : Survives(idf, t, ExpDf(store, scanned, qset, t)))
        key == [i \in DOMAIN kept |->
                  ExpScore(idf, kept[i], ExpTf(store, scanned, qset, kept[i]),
                           ExpDf(store, scanned, qset, kept[i]))]
    IN  IF Len(scanned) = 0 \/ kept = <<>> THEN <<>>
        ELSE TakeExpansion(StableSortDesc(kept, key), max_expand)

expand_query_from_top_docs(store, initial_hits, query_tokens, max_expand, top_docs, idf) ==
    query_tokens \o Expansion(store, initial_hits, query_tokens, max_expand, top_docs, idf)

-----------------------------------------------------------------------------
(* supervisor_profiles.py: build_supervisor_profiles *)

\* Supervisor weights are kept in units of 1 / WeightScale and similarities
\* in units of 1 / SimScale; idf stays in units of 1 / SCALE.  A dict is a
\* function together with the sequence of its keys in insertion order.

GENERIC_TERMS_supervisor ==
    {"deteksi", "prediksi", "klasifikasi", "klaster", "pengembangan", "analisis",
     "sistem", "metode", "model", "algoritma", "pendekatan", "penerapan",
     "berbasis", "menggunakan", "dengan", "untuk", "pada", "dalam", "terhadap",
     "data", "dataset", "fitur", "seleksi", "optimasi", "evaluasi",
     "method", "methods", "models", "algorithm", "algorithms",
     "approach", "system", "analysis", "feature", "features",
     "classification", "prediction", "detection", "optimization", "evaluation",
     "machine", "learning", "deep", "neural", "network", "networks"}

RECURSIVE SqrtBetween(_, _, _)
\* the largest r in lo..hi with r * r <= x
SqrtBetween(x, lo, hi) ==
    IF lo >= hi THEN lo
    ELSE LET mid == (lo + hi + 1) \div 2
         IN  IF mid * mid <= x THEN SqrtBetween(x, mid, hi)
             ELSE SqrtBetween(x, lo, mid - 1)

\* math.sqrt(x), rounded down
Sqrt(x) == SqrtBetween(x, 0, Min(x, 40000))

\* 1.0 + _safe_log1p(f), in units of 1 / SCALE
TfFactor(f) == SCALE + Ln(1 + Max(0, f), 1)

\* (1.0 + _safe_log1p(f)) * idf, in units of 1 / WeightScale
Weight(f, term_idf) ==
    (TfFactor(f) * term_idf) \div (SCALE * (SCALE \div WeightScale))

\* math.sqrt(sum(v * v for v in vec.values())); the 1e-9 added to it is below
\* the resolution
Norm(terms, vec) == Sqrt(SumSeq([i \in DOMAIN terms |-> vec[terms[i]] * vec[terms[i]]]))

\* the documents with source == "dosbing" and a dosen
DosenDocs(processed_docs) ==
    SelectSeq(processed_docs,
              LAMBDA d : d.source = "dosbing" /\ d.dosen # None /\ d.dosen # "")

\* grouped.keys(): the supervisors in order of first appearance
DosenOrder(dosen_docs) ==
    FirstOccurrences([i \in DOMAIN dosen_docs |-> dosen_docs[i].dosen])

\* grouped[dosen]
PubsOf(dosen_docs, dosen) == SelectSeq(dosen_docs, LAMBDA d : d.dosen = dosen)

\* the non-empty tokens of a supervisor's documents, in reading order
DosenTokens(dosen_docs, dosen) ==
    LET pubs == PubsOf(dosen_docs, dosen)
    IN  SelectSeq(ConcatAll([i \in DOMAIN pubs |-> pubs[i].tokens]),
                  LAMBDA t : t # "")

\* df[term]: the supervisors whose tf holds the term
DosenDf(dosen_docs, term) ==
    Cardinality({d \in Range(DosenOrder(dosen_docs)) :
                    term \in Range(DosenTokens(dosen_docs, d))})

\* idf[term] = math.log(1 + (N - dfi + 0.5) / (dfi + 0.5)), N = max(1, len(tf_dosen))
DosenIdf(dosen_docs) ==
    LET N == Max(1, Len(DosenOrder(dosen_docs)))
        V == UNION {Range(DosenTokens(dosen_docs, d)) :
                       d \in Range(DosenOrder(dosen_docs))}
    IN  [t \in V |-> Ln(2 * N + 2, 2 * DosenDf(dosen_docs, t) + 1)]

\* faulty variant: the idf filter is applied with no fallback
TopTerms_NoFallback(terms, vec, idf) ==
    LET keep == SelectSeq(terms, LAMBDA t : idf[t] >= TopTermsIdfCutoff)
    IN  Slice(Slice(StableSortDesc(keep, [i \in DOMAIN keep |-> vec[keep[i]]]),
                    TopTermsPool), TopTermsKeep)

\* top_terms: the heaviest terms with idf >= 0.15, or of all terms when fewer
\* than 8 pass; 25 are sorted out and 20 of them kept
TopTerms(terms, vec, idf) ==
    LET keep == SelectSeq(terms, LAMBDA t : idf[t] >= TopTermsIdfCutoff)
        filtered == Slice(StableSortDesc(keep, [i \in DOMAIN keep |-> vec[keep[i]]]),
                          TopTermsPool)
        unfiltered == Slice(StableSortDesc(terms, [i \in DOMAIN terms |-> vec[terms[i]]]),
                            TopTermsPool)
    IN  Slice(IF Len(filtered) < TopTermsMin THEN unfiltered ELSE filtered,
              TopTermsKeep)

\* profiles[dosen]; samples (display data copied from the documents) are left out
Profile(dosen_docs, idf, dosen) ==
    LET toks == DosenTokens(dosen_docs, dosen)
        terms == FirstOccurrences(toks)
        vec == [t \in Range(terms) |-> Weight(Count(toks, t), idf[t])]
    IN  [dosen |-> dosen,
         terms |-> terms,
         vector |-> vec,
         norm |-> Norm(terms, vec),
         top_terms |-> TopTerms(terms, vec, idf),
         pub_count |-> Len(PubsOf(dosen_docs, dosen))]

\* build_supervisor_profiles(processed_docs): {"idf": ..., "profiles": ...}
build_supervisor_profiles(processed_docs) ==
    LET dd == DosenDocs(processed_docs)
        order == DosenOrder(dd)
        idf == DosenIdf(dd)
    IN  [idf |-> idf,
         profiles |-> [i \in DOMAIN order |-> Profile(dd, idf, order[i])]]

-----------------------------------------------------------------------------
(* supervisor_profiles.py: recommend_supervisors *)

\* anchors: the first anchor_top_n of the query's non-generic terms known to
\* idf, sorted by idf descending, that have idf >= anchor_idf_min
Anchors(idf, q_terms_unique) ==
    LET cand == SelectSeq(q_terms_unique,
                    LAMBDA t : t \in DOMAIN idf /\ t \notin GENERIC_TERMS_supervisor)
        sorted == StableSortDesc(cand, [i \in DOMAIN cand |-> idf[cand[i]]])
    IN  SelectSeq(Slice(sorted, Max(1, AnchorTopN)), LAMBDA t : idf[t] >= AnchorIdfMin)

\* the weight of a query term: generic terms that are no anchor are downweighted
QueryWeight(idf, anchors, query_tokens, term) ==
    LET w == Weight(Count(query_tokens, term), idf[term])
    IN  IF term \in GENERIC_TERMS_supervisor /\ term \notin Range(anchors)
        THEN (w * GenericDownweightNum) \div GenericDownweightDen
        ELSE w

\* qvec as its keys in insertion order; the fallback loop for an empty qvec
\* adds nothing, since a term that is not in idf has weight 0
QvecTerms(idf, q_terms_unique) == SelectSeq(q_terms_unique, LAMBDA t : t \in DOMAIN idf)

\* the terms that contribute to the dot product, in qvec order
SharedTerms(qterms, qw, p) ==
    SelectSeq(qterms, LAMBDA t : t \in DOMAIN p.vector /\ p.vector[t] > 0)

\* sim = dot / (qnorm * (norm + 1e-9)), in units of 1 / SimScale
Cosine(qterms, qw, p) ==
    LET shared == SharedTerms(qterms, qw, p)
        dot == SumSeq([i \in DOMAIN shared |-> qw[shared[i]] * p.vector[shared[i]]])
        qnorm == Sqrt(SumSeq([i \in DOMAIN qterms |-> qw[qterms[i]] * qw[qterms[i]]]))
    IN  IF dot = 0 THEN 0 ELSE ((dot \div qnorm) * SimScale) \div p.norm

\* evidence: the contributing terms by contribution, the first six of them
Evidence(qterms, qw, p) ==
    LET shared == SharedTerms(qterms, qw, p)
    IN  Slice(StableSortDesc(shared,
                  [i \in DOMAIN shared |-> qw[shared[i]] * p.vector[shared[i]]]), 6)

\* faulty variant: no supervisor is gated out
HasAnchor_Always(p, anchors) == TRUE

\* "if anchors: has_anchor = any(vec.get(a, 0.0) > 0.0 for a in anchors)"
HasAnchor(p, anchors) ==
    anchors # <<>> =>
        \E i \in DOMAIN anchors :
            anchors[i] \in DOMAIN p.vector /\ p.vector[anchors[i]] > 0

\* the entry appended to scored for one supervisor
ScoredEntry(qterms, qw, query_tokens, p) ==
    LET sim == Cosine(qterms, qw, p)
        matched == Slice(SelectSeq(p.top_terms, LAMBDA t : t \in Range(query_tokens)), 8)
    IN  [dosen |-> p.dosen,
         score |-> sim + MatchedBonus * Len(matched),
         similarity |-> sim,
         matched_terms |-> matched,
         evidence_terms |-> Evidence(qterms, qw, p),
         pub_count |-> p.pub_count,
         top_terms |-> Slice(p.top_terms, 10)]

\* scored, sorted by score descending
Scored(profiles_obj, query_tokens) ==
    LET idf == profiles_obj.idf
        unique == FirstOccurrences(SelectSeq(query_tokens, LAMBDA t : t # ""))
        anchors == Anchors(idf, unique)
        qterms == QvecTerms(idf, unique)
        qw == [t \in Range(qterms) |-> QueryWeight(idf, anchors, query_tokens, t)]
        all == [i \in DOMAIN profiles_obj.profiles |->
                  ScoredEntry(qterms, qw, query_tokens, profiles_obj.profiles[i])]
        kept == SelectIdx(all,
                    {i \in DOMAIN all :
                        /\ HasAnchor(profiles_obj.profiles[i], anchors)
                        /\ ~(all[i].similarity <= 0 /\ all[i].matched_terms = <<>>)}, 1)
    IN  StableSortDesc(kept, [i \in DOMAIN kept |-> kept[i].score])

\* max(x["similarity"] for x in scored), of a non-empty scored
BestSim(scored) ==
    LET S == {scored[i].similarity : i \in DOMAIN scored}
    IN  CHOOSE b \in S : \A s \in S : s <= b

\* similarity >= max(min_similarity, best_sim * rel_cutoff)
ReachesCutoff(sim, best) ==
    sim >= MinSimilarity /\ sim * RelCutoffDen >= best * RelCutoffNum

\* faulty variant: the filtered list is returned even when it is empty
AfterCutoff_NoFallback(scored) ==
    IF scored = <<>> THEN scored
    ELSE SelectSeq(scored, LAMBDA x : ReachesCutoff(x.similarity, BestSim(scored)))

\* the list that is cut to top_k: filtered when it is not empty, else scored
AfterCutoff(scored) ==
    IF scored = <<>> THEN scored
    ELSE LET filtered == SelectSeq(scored,
                             LAMBDA x : ReachesCutoff(x.similarity, BestSim(scored)))
         IN  IF filtered # <<>> THEN filtered ELSE scored

\* faulty variant: the list is not cut to top_k
TakeTopK_NoCap(list, top_k) == list

\* "[:top_k]"
TakeTopK(list, top_k) == Slice(list, top_k)

\* recommend_supervisors(profiles_obj, query_tokens, top_k): the result list
recommend_supervisors(profiles_obj, query_tokens, top_k) ==
    TakeTopK(AfterCutoff(Scored(profiles_obj, query_tokens)), top_k)

-----------------------------------------------------------------------------
(* The documents of the model and the inputs the operations are given *)

Doc(id, toks, judul, keyword, tanggal, url) ==
    [doc_id |-> id, tokens |-> toks, judul |-> judul, keyword |-> keyword,
     tanggal |-> tanggal, url |-> url]

\* processed documents (rows of docs.jsonl); a corpus is a selection of them
Pool ==
    << Doc("d1", <<"fuzzy", "fuzzy", "kmeans", "model">>,
           <<"Fuzzy", "Logic", "control">>, <<"Fuzzy">>,
           <<"2", "0", "2", "1", "-", "0", "5">>, "u1"),
       Doc("d2", <<"fuzzy", "kmeans", "svm", "ai">>,
           <<"fuzzy", "logic">>, NoWords, <<>>, "u1"),
       Doc("d3", <<"kmeans", "", "svm", "model", "ai">>,
           NoWords, <<"kmeans", "SVM">>, <<"n", ".", "d", ".">>, None),
       Doc(None, <<"fuzzy">>,
           <<"deep", "learning">>, NoWords, <<" ", "2", "0", "1", "7">>, "u1"),
       Doc(" ", <<"kmeans">>,
           <<"fuzzy", "logic", "control">>, <<"kmeans">>,
           <<"2", "0", "2", "3">>, "u2") >>

\* picks of distinct pool documents, at most MaxDocs long, listed in pool
\* order or in the reverse of it (the file order of the corpus is arbitrary)
Corpora ==
    {s \in UNION {[1..n -> DOMAIN Pool] : n \in 0..MaxDocs} :
        \/ \A i, j \in DOMAIN s : i < j => s[i] < s[j]
        \/ \A i, j \in DOMAIN s : i < j => s[i] > s[j]}

DocsOf(s) == [i \in DOMAIN s |-> Pool[s[i]]]

\* tokens = [d.get("tokens", []) for d in docs]
TokensOf(docs) == [i \in DOMAIN docs |-> docs[i].tokens]

\* meta = [{"doc_id": d.get("doc_id"), "judul": ..., ...} for d in docs]
MetaOf(docs) ==
    [i \in DOMAIN docs |->
        [doc_id |-> docs[i].doc_id, judul |-> docs[i].judul,
         keyword |-> docs[i].keyword, tanggal |-> docs[i].tanggal,
         url |-> docs[i].url]]

\* DOCS_BY_ID: "if doc_id: DOCS_BY_ID[str(doc_id)] = d", a later row replacing
\* an earlier one with the same id
DocStore(docs) ==
    [id \in {docs[i].doc_id : i \in DOMAIN docs} \ {None, ""} |->
        docs[CHOOSE i \in DOMAIN docs :
                /\ docs[i].doc_id = id
                /\ \A j \in DOMAIN docs : docs[j].doc_id = id => j <= i]]

QueryTerms == {"", "fuzzy", "kmeans"}

Queries == UNION {[1..n -> QueryTerms] : n \in 0..MaxQueryLen}

TopKs == (0 - 1)..MaxTopK

\* doc_id values of a hit: resolvable, missing, and one the store does not hold
HitIds == {"d1", "d2", "d3", None, "doc_3"}

\* hit lists one longer than MaxHits whose first hit does not resolve and
\* whose other hits do
SkippedFirstHitLists ==
    {<<[doc_id |-> x]>> \o r :
        x \in {None, "doc_3"},
        r \in [1..MaxHits -> {[doc_id |-> y] : y \in {"d1", "d2", "d3"}}]}

HitLists ==
    UNION {[1..n -> {[doc_id |-> x] : x \in HitIds}] : n \in 0..MaxHits}
        \cup SkippedFirstHitLists

NoCall == [op |-> "none"]

\* SUP_PROFILES before the profiles file is loaded (None in the code)
NoProfiles == [loaded |-> FALSE]

\* a processed document as build_supervisor_profiles reads it
DosenDoc(source, dosen, toks) == [source |-> source, dosen |-> dosen, tokens |-> toks]

\* n copies of a token list, one after the other
Repeat(toks, n) == ConcatAll([i \in 1..n |-> toks])

\* three supervisors sharing the term "ai", next to rows that are no
\* supervisor publications
ThreeDosen ==
    << DosenDoc("dosbing", "A", <<"ai", "fuzzy", "logic", "control">>),
       DosenDoc("scholar", "A", <<"kmeans", "kmeans">>),
       DosenDoc("dosbing", "B", <<"ai", "kmeans", "kmeans", "svm", "svm", "", "model">>),
       DosenDoc("dosbing", None, <<"fuzzy", "svm">>),
       DosenDoc("dosbing", "A", <<"fuzzy", "logic", "control">>),
       DosenDoc("dosbing", "C", <<"ai", "deep", "deep", "vision", "vision", "cluster", "cluster">>),
       DosenDoc("dosbing", "", <<"vision">>) >>

\* more supervisors than the API's cap, all with the same publication
ManyDosen ==
    [i \in 1..(ApiSupervisorCap + MaxTopK - 2) |->
        DosenDoc("dosbing", "dosen_" \o ToString(i), <<"fuzzy", "ai">>)]

\* supervisors whose one mention of "fuzzy" is buried under terms of their
\* own, next to as many supervisors without it; all of them share "ai"
DilutedDosen ==
    [i \in 1..(2 * DilutedCount) |->
        IF i <= DilutedCount
        THEN DosenDoc("dosbing", "diluted_" \o ToString(i),
                 <<"fuzzy", "ai">> \o
                 ConcatAll([j \in 1..DilutingTerms |->
                     Repeat(<<"t" \o ToString(i) \o "_" \o ToString(j)>>,
                            DilutingCount)]))
        ELSE DosenDoc("dosbing", "other_" \o ToString(i), <<"kmeans", "kmeans", "ai">>)]

\* n distinct terms named after a supervisor
OwnTerms(name, n) == [j \in 1..n |-> name \o "_" \o ToString(j)]

\* three supervisors sharing SharedTermCount terms (idf below 0.15), with
\* few, many and exactly eight terms of their own next to them
WordyDosen ==
    LET shared == OwnTerms("common", SharedTermCount)
    IN  << DosenDoc("dosbing", "few", OwnTerms("few", FewOwnTerms) \o shared),
           DosenDoc("dosbing", "many", shared \o OwnTerms("many", ManyOwnTerms)),
           DosenDoc("dosbing", "eight", OwnTerms("eight", TopTermsMin) \o shared) >>

SupervisorCorpora == {<<>>, ThreeDosen, ManyDosen, DilutedDosen, WordyDosen}

SupervisorQueryTerms == {"", "fuzzy", "ai", "model"}

SupervisorQueries == UNION {[1..n -> SupervisorQueryTerms] : n \in 0..MaxQueryLen}

\* top_k of a direct call: small values and values beyond the API's cap
SupervisorTopKs == TopKs \cup {ApiSupervisorCap, ApiSupervisorCap + 1}

\* QueryReq.top_k: Field(10, ge=1, le=50)
ReqTopKs == {1, MaxTopK, ReqTopKDefault, ApiSupervisorCap, ApiSupervisorCap + 1, ReqTopKMax}

-----------------------------------------------------------------------------
(* The state machine: the index is built once, then requests are served *)

Init ==
    /\ docs_tokens = <<>>
    /\ docs_meta = <<>>
    /\ built = "none"
    /\ index = EmptyIndex
    /\ docs_by_id = <<>>
    /\ sup_profiles = NoProfiles
    /\ tasks = <<>>
    /\ call = NoCall

\* pipelines/indexing/build_bm25.py calls build_bm25_index; the two lists are
\* also given with different lengths (one a prefix of the corpus)
Build ==
    /\ built = "none"
    /\ \E s \in Corpora : \E i, j \in 0..Len(s) :
          /\ i = Len(s) \/ j = Len(s)
          /\ LET dt == TokensOf(DocsOf(SubSeq(s, 1, i)))
                 dm == MetaOf(DocsOf(SubSeq(s, 1, j)))
                 r == build_bm25_index(dt, dm)
             IN  /\ docs_tokens' = dt
                 /\ docs_meta' = dm
                 /\ built' = IF r.raised = None THEN "ok" ELSE "error"
                 /\ index' = r.index
                 /\ docs_by_id' = DocStore(DocsOf(s))
    /\ UNCHANGED <<sup_profiles, tasks, call>>

Search ==
    /\ built = "ok"
    /\ call.op = "none"
    /\ \E q \in Queries, k \in TopKs, m \in BOOLEAN :
          call' = [op |-> "search", query_tokens |-> q, top_k |-> k,
                   include_meta |-> m,
                   result |-> bm25_search(index, q, k, m)]
    /\ UNCHANGED <<docs_tokens, docs_meta, built, index, docs_by_id, sup_profiles, tasks>>

GetScores ==
    /\ built = "ok"
    /\ call.op = "none"
    /\ \E q \in Queries :
          call' = [op |-> "scores", query_tokens |-> q,
                   result |-> get_scores(index, q)]
    /\ UNCHANGED <<docs_tokens, docs_meta, built, index, docs_by_id, sup_profiles, tasks>>

Recommend ==
    /\ built = "ok"
    /\ call.op = "none"
    /\ \E q \in Queries, k \in TopKs, d \in BOOLEAN :
          call' = [op |-> "recommend", query_tokens |-> q, top_k |-> k,
                   diversify |-> d,
                   result |-> recommend_citations(index, q, k, d)]
    /\ UNCHANGED <<docs_tokens, docs_meta, built, index, docs_by_id, sup_profiles, tasks>>

Expand ==
    /\ built = "ok"
    /\ call.op = "none"
    /\ \E h \in HitLists, q \in Queries, e \in 0..MaxExpand, t \in 0..MaxHits,
          f \in {NoIdf, [given |-> TRUE, table |-> <<>>],
                 [given |-> TRUE, table |-> index.idf]} :
          call' = [op |-> "expand", initial_hits |-> h, query_tokens |-> q,
                   max_expand |-> e, top_docs |-> t, idf |-> f,
                   result |-> expand_query_from_top_docs(docs_by_id, h, q, e, t, f)]
    /\ UNCHANGED <<docs_tokens, docs_meta, built, index, docs_by_id, sup_profiles, tasks>>

\* the response is handed back; the next request can be served
Return ==
    /\ call.op # "none"
    /\ call' = NoCall
    /\ UNCHANGED <<docs_tokens, docs_meta, built, index, docs_by_id, sup_profiles, tasks>>

Next == Build \/ Search \/ GetScores \/ Recommend \/ Return

Spec == Init /\ [][Next]_vars

\* pipelines/profiling/build_supervisor_profiles.py: the profiles are built
\* from the processed documents and then loaded as SUP_PROFILES
BuildProfiles ==
    /\ sup_profiles = NoProfiles
    /\ call.op = "none"
    /\ \E c \in SupervisorCorpora : sup_profiles' = build_supervisor_profiles(c)
    /\ UNCHANGED <<docs_tokens, docs_meta, built, index, docs_by_id, tasks, call>>

\* a direct call of recommend_supervisors
RecommendSupervisors ==
    /\ sup_profiles # NoProfiles
    /\ call.op = "none"
    /\ \E q \in SupervisorQueries, k \in SupervisorTopKs :
          call' = [op |-> "supervisors", query_tokens |-> q, top_k |-> k,
                   result |-> recommend_supervisors(sup_profiles, q, k)]
    /\ UNCHANGED <<docs_tokens, docs_meta, built, index, docs_by_id, sup_profiles, tasks>>

\* POST /recommend/supervisors
recommend_supervisor ==
    /\ call.op = "none"
    /\ \E q \in SupervisorQueries, k \in ReqTopKs :
          call' = IF sup_profiles = NoProfiles
                  THEN [op |-> "api_supervisors", query_tokens |-> q, req_top_k |-> k,
                        error |-> TRUE, result |-> <<>>]
                  ELSE [op |-> "api_supervisors", query_tokens |-> q, req_top_k |-> k,
                        error |-> FALSE,
                        result |-> recommend_supervisors(sup_profiles, q,
                                                         Min(k, ApiSupervisorCap))]
    /\ UNCHANGED <<docs_tokens, docs_meta, built, index, docs_by_id, sup_profiles, tasks>>

\* streamlit_app.py: run_dosbing_local(query, topk)
run_dosbing_local ==
    /\ call.op = "none"
    /\ \E q \in SupervisorQueries, k \in {ReqTopKDefault, ApiSupervisorCap + 1} :
          call' = [op |-> "local_supervisors", query_tokens |-> q, top_k |-> k,
                   result |-> IF sup_profiles = NoProfiles THEN <<>>
                              ELSE recommend_supervisors(sup_profiles, q, k)]
    /\ UNCHANGED <<docs_tokens, docs_meta, built, index, docs_by_id, sup_profiles, tasks>>

NextSupervisors ==
    BuildProfiles \/ RecommendSupervisors \/ recommend_supervisor
        \/ run_dosbing_local \/ Return

SpecSupervisors == Init /\ [][NextSupervisors]_vars

\* the service after start-up over the whole pool: index and store loaded
InitExpand ==
    /\ docs_tokens = TokensOf(Pool)
    /\ docs_meta = MetaOf(Pool)
    /\ built = "ok"
    /\ index = build_bm25_index(TokensOf(Pool), MetaOf(Pool)).index
    /\ docs_by_id = DocStore(Pool)
    /\ sup_profiles = NoProfiles
    /\ tasks = <<>>
    /\ call = NoCall

NextExpand == Expand \/ Return

SpecExpand == InitExpand /\ [][NextExpand]_vars

-----------------------------------------------------------------------------
(* Requests served in parallel.  Each function is a sequence of steps, and *)
(* a step reads the shared index, document store and profile table as they *)
(* are when it runs.                                                       *)

Threads == {1, 2}

\* faulty variant: the item is the metadata dict itself, not a copy of it
MetaAfterItem_Aliased(m, item, include_meta) == IF include_meta THEN item ELSE m

\* index.docs_meta[doc_idx] once the item of the document is built: the item
\* is "index.docs_meta[doc_idx].copy()" or a new dict, so the entry is as before
MetaAfterItem(m, item, include_meta) == m

\* faulty variant: the expansion is appended to the caller's list in place
CallerTokensAfterExpand_InPlace(query_tokens, returned) == returned

\* the caller's query_tokens list once expand_query_from_top_docs returned:
\* "query_tokens + expansion" is a new list, so the caller's list is as before
CallerTokensAfterExpand(query_tokens, returned) == query_tokens

\* the three steps of the citation pipeline of /recommend/citations:
\* bm25_search, then expand_query_from_top_docs, then recommend_citations on
\* the expanded tokens, called with the arguments it accepts
citation_pipeline(idx, store, q_tokens, top_k) ==
    LET initial == bm25_search(idx, q_tokens,
                       Max(PipelinePoolMin, top_k * PipelinePoolFactor), TRUE)
        q_tokens2 == expand_query_from_top_docs(store, initial, q_tokens,
                         PipelineMaxExpand, PipelineTopDocs,
                         [given |-> TRUE, table |-> idx.idf])
    IN  recommend_citations(idx, q_tokens2, top_k, TRUE)

Idle == [pc |-> "idle"]

\* the pc a call starts at
FirstStep(op) ==
    CASE op = "expand" -> "expand"
      [] op = "supervisors" -> "supervisors"
      [] OTHER -> "score"

\* top_k of the bm25_search a call starts with
FirstSearchTopK(op, top_k) ==
    CASE op = "recommend" -> top_k * CandidateFactor
      [] op = "pipeline" -> Max(PipelinePoolMin, top_k * PipelinePoolFactor)
      [] OTHER -> top_k

\* a call as it starts: q is the caller's token list, q0 what it held when the
\* call was made; flag is include_meta (search), diversify (recommend) or
\* whether idf is given (expand)
NewTask(op, q, top_k, flag, hits) ==
    [pc |-> FirstStep(op), op |-> op, q0 |-> q, q |-> q, top_k |-> top_k,
     flag |-> flag, hits0 |-> hits, hits |-> hits, cur |-> q,
     k |-> FirstSearchTopK(op, top_k), stage |-> 1, ranked |-> <<>>,
     q2 |-> <<>>, result |-> <<>>, runs |-> 1, first |-> <<>>,
     overlapped |-> FALSE]

InProgress(task) == task.pc \notin {"idle", "done"}

\* the requests of the parallel callers: one query that the pipeline expands
ParallelQueries == {<<"kmeans", "fuzzy">>}

ParallelTopKs == {2}

ParallelHits ==
    {<<[doc_id |-> "p1"], [doc_id |-> "p2"]>>, <<[doc_id |-> "p1"], [doc_id |-> None]>>}

\* a request arrives on a free thread
TaskStart ==
    \E t \in Threads :
        /\ tasks[t].pc = "idle"
        /\ \E op \in {"search", "recommend", "expand", "supervisors", "pipeline"},
              q \in ParallelQueries, k \in ParallelTopKs, f \in BOOLEAN,
              h \in ParallelHits :
              /\ op \in {"supervisors", "pipeline"} => f
              /\ op # "expand" => h = CHOOSE x \in ParallelHits : TRUE
              /\ LET busy == \E u \in Threads \ {t} : InProgress(tasks[u])
                 IN  tasks' = [u \in Threads |->
                        IF u = t
                        THEN [NewTask(op, q, k, f, h) EXCEPT !.overlapped = busy]
                        ELSE IF InProgress(tasks[u])
                             THEN [tasks[u] EXCEPT !.overlapped = TRUE]
                             ELSE tasks[u]]
        /\ UNCHANGED <<docs_tokens, docs_meta, built, index, docs_by_id, sup_profiles, call>>

\* bm25_search up to "ranked = sorted(...)[:top_k]": postings, idf, doc_len and
\* avgdl are read
SearchScore ==
    \E t \in Threads :
        /\ tasks[t].pc = "score"
        /\ LET task == tasks[t]
               top == IF task.cur = <<>> THEN <<>>
                      ELSE TopOf(Ranked(index, task.cur), task.k)
               ranked == [i \in DOMAIN top |->
                            <<top[i], DocScore(index, QTerms(task.cur), top[i])>>]
           IN  tasks' = [tasks EXCEPT ![t] =
                            [task EXCEPT !.pc = "collect", !.ranked = ranked]]
        /\ UNCHANGED <<docs_tokens, docs_meta, built, index, docs_by_id, sup_profiles, call>>

\* bm25_search from "out = []" on: docs_meta is read and the items are built
SearchCollect ==
    \E t \in Threads :
        /\ tasks[t].pc = "collect"
        /\ LET task == tasks[t]
               include_meta == IF task.op = "search" THEN task.flag ELSE TRUE
               ranked == task.ranked
               out == [i \in DOMAIN ranked |->
                         ItemFromMeta(index.docs_meta[ranked[i][1] + 1],
                                      ranked[i][1], ranked[i][2], include_meta)]
               ItemAt(j) == out[CHOOSE i \in DOMAIN ranked : ranked[i][1] = j - 1]
           IN  /\ index' = [index EXCEPT !.docs_meta =
                     [j \in DOMAIN index.docs_meta |->
                        IF \E i \in DOMAIN ranked : ranked[i][1] = j - 1
                        THEN MetaAfterItem(index.docs_meta[j], ItemAt(j), include_meta)
                        ELSE index.docs_meta[j]]]
               /\ tasks' = [tasks EXCEPT ![t] =
                     CASE task.op = "search" ->
                            [task EXCEPT !.pc = "done", !.result = out]
                       [] task.op = "pipeline" /\ task.stage = 1 ->
                            [task EXCEPT !.pc = "expand", !.hits = out]
                       [] OTHER ->
                            [task EXCEPT !.pc = "rerank", !.hits = out]]
        /\ UNCHANGED <<docs_tokens, docs_meta, built, docs_by_id, sup_profiles, call>>

\* expand_query_from_top_docs: the document store is read; the pipeline calls
\* it with max_expand=8, top_docs=8 and the index's idf, and goes on to
\* recommend_citations with the returned tokens
ExpandStep ==
    \E t \in Threads :
        /\ tasks[t].pc = "expand"
        /\ LET task == tasks[t]
               idf == IF task.flag THEN [given |-> TRUE, table |-> index.idf]
                      ELSE NoIdf
               returned == expand_query_from_top_docs(docs_by_id, task.hits, task.q,
                               PipelineMaxExpand, PipelineTopDocs, idf)
               after == [task EXCEPT !.q = CallerTokensAfterExpand(task.q, returned)]
           IN  tasks' = [tasks EXCEPT ![t] =
                  IF task.op = "expand"
                  THEN [after EXCEPT !.pc = "done", !.result = returned]
                  ELSE [after EXCEPT !.pc = "score", !.stage = 2, !.q2 = returned,
                                     !.cur = returned,
                                     !.k = task.top_k * CandidateFactor]]
        /\ UNCHANGED <<docs_tokens, docs_meta, built, index, docs_by_id, sup_profiles, call>>

\* recommend_citations after its bm25_search: the items are enriched, sorted
\* and selected; a pipeline is then run a second time with the same list
RerankStep ==
    \E t \in Threads :
        /\ tasks[t].pc = "rerank"
        /\ LET task == tasks[t]
               diversify == IF task.op = "recommend" THEN task.flag ELSE TRUE
               result == SelectCitations(RerankHits(task.hits, task.cur),
                                         task.top_k, diversify)
           IN  tasks' = [tasks EXCEPT ![t] =
                  IF task.op = "pipeline" /\ task.runs = 1
                  THEN [task EXCEPT !.pc = "score", !.stage = 1, !.runs = 2,
                                    !.first = result, !.cur = task.q,
                                    !.k = FirstSearchTopK("pipeline", task.top_k)]
                  ELSE [task EXCEPT !.pc = "done", !.result = result]]
        /\ UNCHANGED <<docs_tokens, docs_meta, built, index, docs_by_id, sup_profiles, call>>

\* recommend_supervisors: the profile table is read
SupervisorsStep ==
    \E t \in Threads :
        /\ tasks[t].pc = "supervisors"
        /\ tasks' = [tasks EXCEPT ![t] =
              [tasks[t] EXCEPT !.pc = "done",
                  !.result = recommend_supervisors(sup_profiles, tasks[t].q,
                                                   tasks[t].top_k)]]
        /\ UNCHANGED <<docs_tokens, docs_meta, built, index, docs_by_id, sup_profiles, call>>

\* the caller has its result; the thread is free again
TaskReturn ==
    \E t \in Threads :
        /\ tasks[t].pc = "done"
        /\ tasks' = [tasks EXCEPT ![t] = Idle]
        /\ UNCHANGED <<docs_tokens, docs_meta, built, index, docs_by_id, sup_profiles, call>>

\* the corpus the parallel requests are served from: the query reaches the
\* first two documents and the last, its expansion ("svm") the third as well
ParallelCorpus ==
    << Doc("p1", <<"fuzzy", "svm", "lstm">>,
           <<"Fuzzy", "SVM">>, <<"Fuzzy">>, <<"2", "0", "2", "1">>, "u1"),
       Doc("p2", <<"fuzzy", "svm", "fuzzy">>,
           <<"fuzzy", "control">>, NoWords, <<>>, "u2"),
       Doc("p3", <<"svm", "lstm">>,
           <<"lstm", "forecast">>, <<"svm">>, <<"2", "0", "2", "3">>, None),
       Doc(None, <<"kmeans">>,
           <<"kmeans", "cluster">>, NoWords, <<"2", "0", "1", "7">>, "u4") >>

\* the service after start-up: index, store and profiles loaded, threads free
InitParallel ==
    /\ docs_tokens = TokensOf(ParallelCorpus)
    /\ docs_meta = MetaOf(ParallelCorpus)
    /\ built = "ok"
    /\ index = build_bm25_index(TokensOf(ParallelCorpus), MetaOf(ParallelCorpus)).index
    /\ docs_by_id = DocStore(ParallelCorpus)
    /\ sup_profiles = build_supervisor_profiles(ThreeDosen)
    /\ tasks = [t \in Threads |-> Idle]
    /\ call = NoCall

NextParallel ==
    TaskStart \/ SearchScore \/ SearchCollect \/ ExpandStep \/ RerankStep
        \/ SupervisorsStep \/ TaskReturn

SpecParallel == InitParallel /\ [][NextParallel]_vars

-----------------------------------------------------------------------------
(* Citation requests over a corpus wider than one candidate pool: the query *)
(* term "fuzzy" is in all five documents, the first three of which score    *)
(* alike.                                                                   *)

WideCorpus ==
    << Doc("w1", <<"fuzzy", "svm">>,
           <<"support", "vector">>, NoWords, <<>>, "u1"),
       Doc("w2", <<"fuzzy", "ai">>,
           <<"expert", "system">>, NoWords, <<>>, "u2"),
       Doc("w3", <<"fuzzy", "model">>,
           <<"linear", "regression">>, NoWords, <<>>, "u3"),
       Doc("w4", <<"fuzzy", "kmeans", "svm", "ai">>,
           <<"cluster", "analysis">>, NoWords, <<>>, "u4"),
       Doc("w5", <<"fuzzy", "kmeans", "kmeans", "model", "ai", "svm">>,
           <<"cluster", "analysis", "survey">>, <<"kmeans">>,
           <<"2", "0", "1", "7">>, "u5") >>

WideTopKs == 0..MaxWideTopK

\* the service after start-up over the five documents
InitWide ==
    /\ docs_tokens = TokensOf(WideCorpus)
    /\ docs_meta = MetaOf(WideCorpus)
    /\ built = "ok"
    /\ index = build_bm25_index(TokensOf(WideCorpus), MetaOf(WideCorpus)).index
    /\ docs_by_id = DocStore(WideCorpus)
    /\ sup_profiles = NoProfiles
    /\ tasks = <<>>
    /\ call = NoCall

\* recommend_citations(BM25, q, top_k=k, diversify=d) over the loaded index
RecommendWide ==
    /\ built = "ok"
    /\ call.op = "none"
    /\ \E q \in Queries, k \in WideTopKs, d \in BOOLEAN :
          call' = [op |-> "recommend", query_tokens |-> q, top_k |-> k,
                   diversify |-> d,
                   result |-> recommend_citations(index, q, k, d)]
    /\ UNCHANGED <<docs_tokens, docs_meta, built, index, docs_by_id, sup_profiles, tasks>>

NextWide == RecommendWide \/ Return

SpecWide == InitWide /\ [][NextWide]_vars

-----------------------------------------------------------------------------
(* Citation requests as the API and the Streamlit application make them *)

\* def recommend_citations(index, query_tokens, top_k=10, diversify=True)
CitationParameters == <<"index", "query_tokens", "top_k", "diversify">>

\* the parameters without a default value: index and query_tokens
CitationRequired == 2

\* recommend_citations(BM25, q_tokens2, top_k=..., diversify=True,
\*                     original_query_tokens=q_tokens): two positionals
CitationCallPositionals == 2

CitationCallKeywords == {"top_k", "diversify", "original_query_tokens"}

\* Python binds the call: positionals fill the first parameters, every
\* keyword names a parameter not yet filled, no required parameter is left
\* out; otherwise the call raises TypeError before the body runs
Binds(params, required, npos, keywords) ==
    /\ npos <= Len(params)
    /\ keywords \subseteq {params[i] : i \in (npos + 1)..Len(params)}
    /\ \A i \in 1..required : i <= npos \/ params[i] \in keywords

\* the citation part the three callers share: search, expand, then the call
\* of recommend_citations, which returns the results or raises
citation_request(q_tokens, top_k) ==
    IF Binds(CitationParameters, CitationRequired,
             CitationCallPositionals, CitationCallKeywords)
    THEN [error |-> "none",
          results |-> citation_pipeline(index, docs_by_id, q_tokens, top_k)]
    ELSE [error |-> "TypeError", results |-> <<>>]

\* streamlit_app.py: run_citations_local(q, topk=80)
LocalCitationTopK == 80

\* the service after start-up, with or without the index file and the
\* profiles file
InitService ==
    \E has_index, has_profiles \in BOOLEAN :
        /\ docs_tokens = IF has_index THEN TokensOf(WideCorpus) ELSE <<>>
        /\ docs_meta = IF has_index THEN MetaOf(WideCorpus) ELSE <<>>
        /\ built = IF has_index THEN "ok" ELSE "none"
        /\ index = IF has_index
                   THEN build_bm25_index(TokensOf(WideCorpus), MetaOf(WideCorpus)).index
                   ELSE EmptyIndex
        /\ docs_by_id = DocStore(WideCorpus)
        /\ sup_profiles = IF has_profiles THEN build_supervisor_profiles(ThreeDosen)
                          ELSE NoProfiles
        /\ tasks = <<>>
        /\ call = NoCall

\* apps/api/main.py: POST /recommend/citations
recommend_citation ==
    /\ call.op = "none"
    /\ \E q \in Queries, k \in ReqTopKs :
          call' = IF built # "ok"
                  THEN [op |-> "api_citations", query_tokens |-> q, req_top_k |-> k,
                        error |-> "no index", results |-> <<>>]
                  ELSE [op |-> "api_citations", query_tokens |-> q, req_top_k |-> k]
                       @@ citation_request(q, k)
    /\ UNCHANGED <<docs_tokens, docs_meta, built, index, docs_by_id, sup_profiles, tasks>>

\* apps/api/main.py: POST /demo, citations first, then supervisors
demo ==
    /\ call.op = "none"
    /\ \E q \in Queries, k \in ReqTopKs :
          LET cits == IF built # "ok" THEN [error |-> "none", results |-> <<>>]
                      ELSE citation_request(q, k)
              sups == IF sup_profiles = NoProfiles THEN <<>>
                      ELSE recommend_supervisors(sup_profiles, q,
                                                 Min(k, ApiSupervisorCap))
          IN  call' = IF cits.error # "none"
                      THEN [op |-> "demo", query_tokens |-> q, req_top_k |-> k,
                            error |-> cits.error, results |-> <<>>]
                      ELSE [op |-> "demo", query_tokens |-> q, req_top_k |-> k,
                            error |-> "none", results |-> cits.results,
                            citations_error |-> built # "ok",
                            supervisors |-> sups,
                            supervisors_error |-> sup_profiles = NoProfiles]
    /\ UNCHANGED <<docs_tokens, docs_meta, built, index, docs_by_id, sup_profiles, tasks>>

\* streamlit_app.py: run_citations_local(q, topk=80)
run_citations_local ==
    /\ call.op = "none"
    /\ \E q \in Queries :
          call' = IF built # "ok"
                  THEN [op |-> "local_citations", query_tokens |-> q,
                        error |-> "no index", results |-> <<>>]
                  ELSE [op |-> "local_citations", query_tokens |-> q]
                       @@ citation_request(q, LocalCitationTopK)
    /\ UNCHANGED <<docs_tokens, docs_meta, built, index, docs_by_id, sup_profiles, tasks>>

NextService == recommend_citation \/ demo \/ run_citations_local \/ Return

SpecService == InitService /\ [][NextService]_vars

-----------------------------------------------------------------------------
(* Properties of build_bm25_index and bm25_search *)

\* the documents (0-based) holding at least one non-empty token of the query
Overlapping(q) ==
    {d \in 0..(Len(docs_tokens) - 1) :
        \E t \in Range(q) \ {""} : t \in Range(docs_tokens[d + 1])}

ResultDocs(r) == {r[i].doc_idx : i \in DOMAIN r}

\* C1: build_bm25_index raises, and returns no index, exactly when
\* len(docs_tokens) # len(docs_meta); with equal lengths it returns an index.
C1_BuildFailsOnLengthMismatch ==
    built # "none" =>
        /\ (Len(docs_tokens) # Len(docs_meta)) <=> (built = "error")
        /\ built = "error" => index = EmptyIndex
        /\ built = "ok" => /\ Len(index.doc_len) = Len(docs_tokens)
                           /\ index.docs_meta = docs_meta

C1_Witness ==
    built = "error" /\ docs_tokens = <<>> /\ docs_meta # <<>>

\* C2: for top_k >= 0 bm25_search returns at most top_k items, in order of
\* non-increasing score, and no candidate left out scores strictly more than
\* a returned item.
C2_SearchTopKDescending ==
    (call.op = "search" /\ call.top_k >= 0) =>
        LET r == call.result
        IN  /\ Len(r) <= call.top_k
            /\ \A i, j \in DOMAIN r : i < j => r[i].score >= r[j].score
            /\ \A d \in Overlapping(call.query_tokens) \ ResultDocs(r) :
                  \A i \in DOMAIN r :
                      DocScore(index, QTerms(call.query_tokens), d) <= r[i].score

C2_Witness ==
    /\ call.op = "search"
    /\ call.top_k = 2
    /\ Len(call.result) = 2
    /\ call.result[1].score > call.result[2].score
    /\ Overlapping(call.query_tokens) \ ResultDocs(call.result) # {}

\* C3: a document is returned only if it holds a non-empty query term; when
\* top_k is at least the number of such documents, each is returned exactly once.
C3_SearchOnlyOverlapping ==
    call.op = "search" =>
        LET r == call.result
            S == Overlapping(call.query_tokens)
        IN  /\ ResultDocs(r) \subseteq S
            /\ call.top_k >= Cardinality(S) =>
                  \A d \in S : Cardinality({i \in DOMAIN r : r[i].doc_idx = d}) = 1

C3_Witness ==
    /\ call.op = "search"
    /\ Cardinality(Overlapping(call.query_tokens)) = 2
    /\ call.top_k = 3
    /\ Len(docs_tokens) = 3
    /\ Len(call.query_tokens) = 2
    /\ Len(call.result) = 2

\* C4: bm25_search with an empty query term list returns the empty list, for
\* every index (also one built from zero documents) and every top_k.
C4_EmptyQueryEmptyResult ==
    (call.op = "search" /\ call.query_tokens = <<>>) => call.result = <<>>

C4_Witness ==
    /\ call.op = "search"
    /\ call.query_tokens = <<>>
    /\ call.result = <<>>
    /\ Len(docs_tokens) = MaxDocs
    /\ call.top_k = MaxTopK

\* C14: every built index has len(doc_len) = N = len(docs_meta); every postings
\* entry names a document in [0, N) with tf >= 1, at most one entry per
\* document; df[t] = len(postings[t]); df, idf and postings share their keys.
C14_IndexWellFormed ==
    built = "ok" =>
        LET N == Len(docs_tokens)
        IN  /\ Len(index.doc_len) = N
            /\ Len(index.docs_meta) = N
            /\ DOMAIN index.vocab_df = DOMAIN index.postings
            /\ DOMAIN index.idf = DOMAIN index.postings
            /\ \A t \in DOMAIN index.postings :
                  LET pl == index.postings[t]
                  IN  /\ index.vocab_df[t] = Len(pl)
                      /\ \A k \in DOMAIN pl :
                            /\ pl[k][1] \in 0..(N - 1)
                            /\ pl[k][2] >= 1
                      /\ \A k, l \in DOMAIN pl : k # l => pl[k][1] # pl[l][1]

C14_Witness ==
    /\ built = "ok"
    /\ Len(docs_tokens) = MaxDocs
    /\ \E t \in DOMAIN index.postings :
          /\ Len(index.postings[t]) >= 2
          /\ \E k \in DOMAIN index.postings[t] : index.postings[t][k][2] = 2

\* the permutations of 1..n
Perms(n) == {p \in [1..n -> 1..n] : \A i, j \in 1..n : i # j => p[i] # p[j]}

\* what bm25_search returns for the served query, with top_k = N, on the index
\* built from the corpus reordered by p
PermutedResult(p) ==
    LET dt == [i \in DOMAIN docs_tokens |-> docs_tokens[p[i]]]
        dm == [i \in DOMAIN docs_meta |-> docs_meta[p[i]]]
        idx == build_bm25_index(dt, dm).index
    IN  [idx |-> idx,
         res |-> bm25_search(idx, call.query_tokens, Len(dt), TRUE)]

\* the (doc_id, score) pairs of a result
ScoreById(r) == {<<r[i].doc_id, r[i].score>> : i \in DOMAIN r}

\* the (doc_id, score) pairs of the items whose doc_id is their metadata's own
OwnIdScores(idx, r) ==
    {<<r[i].doc_id, r[i].score>> : i \in
        {k \in DOMAIN r :
            idx.docs_meta[r[k].doc_idx + 1].doc_id \notin {None, "", " "}}}

\* C16 as stated: for every permutation of the corpus, bm25_search with the
\* same query and top_k = N gives each doc_id the same score.
C16_SameScorePerDocId ==
    (call.op = "search" /\ call.include_meta /\ call.top_k = Len(docs_tokens)) =>
        LET served == ScoreById(call.result)
        IN  \A p \in Perms(Len(docs_tokens)) :
                ScoreById(PermutedResult(p).res) = served

\* C16 amended: for every permutation of the corpus, bm25_search with the same
\* query and top_k = N gives the same score to every doc_id that is a
\* document's own metadata doc_id (present and not blank); a synthesized
\* doc_{index} names whatever document sits at that index.
C16_SameScorePerOwnDocId ==
    (call.op = "search" /\ call.include_meta /\ call.top_k = Len(docs_tokens)) =>
        LET served == OwnIdScores(index, call.result)
        IN  \A p \in Perms(Len(docs_tokens)) :
                LET permuted == PermutedResult(p)
                IN  OwnIdScores(permuted.idx, permuted.res) = served

C16_Witness ==
    /\ call.op = "search"
    /\ call.include_meta
    /\ call.top_k = Len(docs_tokens)
    /\ Len(docs_tokens) = 3
    /\ Cardinality(OwnIdScores(index, call.result)) = 2
    /\ \E p \in Perms(3) : ScoreById(PermutedResult(p).res) # ScoreById(call.result)

\* C18 as stated: for either value of include_meta every item's doc_id is not
\* blank, is the metadata doc_id when that is present and not blank, and is
\* doc_{index} only when the metadata doc_id is missing, None or blank.
C18_DocIdFromMetadata ==
    call.op = "search" =>
        \A i \in DOMAIN call.result :
            LET it == call.result[i]
                m == docs_meta[it.doc_idx + 1].doc_id
                own == m \notin {None, "", " "}
            IN  /\ it.doc_id \notin {None, "", " "}
                /\ own => it.doc_id = m
                /\ ~own => it.doc_id = "doc_" \o ToString(it.doc_idx)
                /\ it.doc_id = "doc_" \o ToString(it.doc_idx) => ~own

\* C18 amended: with include_meta on, every item's doc_id is not blank, is the
\* metadata doc_id when that is present and not blank, and is doc_{index}
\* otherwise; with include_meta off every item's doc_id is doc_{index}.
C18_DocIdFromMetadataWhenIncluded ==
    call.op = "search" =>
        \A i \in DOMAIN call.result :
            LET it == call.result[i]
                m == docs_meta[it.doc_idx + 1].doc_id
                own == m \notin {None, "", " "}
            IN  /\ it.doc_id \notin {None, "", " "}
                /\ (call.include_meta /\ own) => it.doc_id = m
                /\ (~call.include_meta \/ ~own) =>
                      it.doc_id = "doc_" \o ToString(it.doc_idx)

C18_Witness ==
    /\ call.op = "search"
    /\ call.include_meta
    /\ Len(call.result) = 3
    /\ \E i, j, k \in DOMAIN call.result :
          /\ docs_meta[call.result[i].doc_idx + 1].doc_id = None
          /\ docs_meta[call.result[j].doc_idx + 1].doc_id = " "
          /\ call.result[k].doc_id = "d1"

\* the (document, score) pairs of a result
ScoreByIdx(r) == {<<r[i].doc_idx, r[i].score>> : i \in DOMAIN r}

\* what bm25_search returns for the served call when each query token is
\* given once only
DistinctQueryResult ==
    bm25_search(index, FirstOccurrences(call.query_tokens), call.top_k,
                call.include_meta)

\* C19: repeating a query term changes no score: every returned document has
\* the score it has for the list of the query's distinct terms, and for
\* top_k = N the same documents are returned.
C19_RepetitionKeepsScores ==
    call.op = "search" =>
        LET distinct == DistinctQueryResult
        IN  /\ \A i \in DOMAIN call.result : \A j \in DOMAIN distinct :
                  call.result[i].doc_idx = distinct[j].doc_idx =>
                      call.result[i].score = distinct[j].score
            /\ call.top_k = Len(docs_tokens) =>
                  ScoreByIdx(call.result) = ScoreByIdx(distinct)

C19_Witness ==
    /\ call.op = "search"
    /\ Len(call.query_tokens) = 2
    /\ call.query_tokens[1] = call.query_tokens[2]
    /\ call.top_k = Len(docs_tokens)
    /\ Len(call.result) >= 2

\* position in q_terms of the first query term that document d holds
FirstHit(d) ==
    LET qt == QTerms(call.query_tokens)
        S == {k \in DOMAIN qt : qt[k] \in Range(docs_tokens[d + 1])}
    IN  CHOOSE k \in S : \A l \in S : k <= l

\* C20 as stated: of two returned documents with equal scores the one with the
\* smaller document index is listed first, whatever the order of the query terms.
C20_TiesBySmallerIndex ==
    call.op = "search" =>
        \A i, j \in DOMAIN call.result :
            (i < j /\ call.result[i].score = call.result[j].score) =>
                call.result[i].doc_idx < call.result[j].doc_idx

\* C20 amended: of two returned documents with equal scores, the one reached
\* first by the scoring loop is listed first: the one whose first matching
\* query term comes earlier in the query, and for the same term the one with
\* the smaller document index (so for a one-term query, the smaller index).
C20_TiesByFirstHit ==
    call.op = "search" =>
        \A i, j \in DOMAIN call.result :
            (i < j /\ call.result[i].score = call.result[j].score) =>
                LET a == call.result[i].doc_idx
                    b == call.result[j].doc_idx
                IN  \/ FirstHit(a) < FirstHit(b)
                    \/ FirstHit(a) = FirstHit(b) /\ a < b

C20_Witness ==
    /\ call.op = "search"
    /\ Len(call.result) = 2
    /\ call.result[1].score = call.result[2].score
    /\ call.result[1].doc_idx > call.result[2].doc_idx
    /\ FirstHit(call.result[1].doc_idx) < FirstHit(call.result[2].doc_idx)

-----------------------------------------------------------------------------
(* Properties of recommend_citations *)

\* the BM25 candidate pool of the recommend call being served
CallPool == RerankedPool(index, call.query_tokens, call.top_k)

\* C5: recommend_citations returns the empty list whenever its candidate pool
\* is empty: zero documents, an empty query, or no document sharing a term
\* with the query, with diversify on or off.
C5_RecommendEmptyPool ==
    call.op = "recommend" =>
        /\ Overlapping(call.query_tokens) = {} => call.result = <<>>
        /\ CallPool = <<>> => call.result = <<>>

C5_Witness ==
    /\ call.op = "recommend"
    /\ call.diversify
    /\ call.top_k >= 1
    /\ Len(docs_tokens) >= 1
    /\ QTerms(call.query_tokens) # <<>>
    /\ Overlapping(call.query_tokens) = {}
    /\ call.result = <<>>

\* C6: for top_k >= 0 recommend_citations returns at most top_k items, and with
\* diversify on never more items than with diversify off.
C6_RecommendAtMostTopK ==
    (call.op = "recommend" /\ call.top_k >= 0) =>
        /\ Len(call.result) <= call.top_k
        /\ Len(recommend_citations(index, call.query_tokens, call.top_k, TRUE))
              <= Len(recommend_citations(index, call.query_tokens, call.top_k, FALSE))

C6_Witness ==
    /\ call.op = "recommend"
    /\ call.diversify
    /\ call.top_k >= 1
    /\ Len(CallPool) > call.top_k
    /\ Len(call.result) = call.top_k

DedupKey(item) ==
    IF item.url # None /\ item.url # "" THEN <<"url", item.url>>
    ELSE IF item.judul # NoWords THEN <<"judul", item.judul>>
    ELSE <<"doc_id", item.doc_id>>

TitleWords(item) == {Lower(w) : w \in Range(item.judul)}

FourP75(pool) ==
    LET n == Len(pool)
        asc == [i \in 1..n |-> pool[n + 1 - i].score2]
        lo == (3 * (n - 1)) \div 4
        rem == (3 * (n - 1)) % 4
    IN  IF rem = 0 THEN 4 * asc[lo + 1]
        ELSE 4 * asc[lo + 1] + rem * (asc[lo + 2] - asc[lo + 1])

\* score2 >= max(0.65 * max score2, p75 of score2 over the pool)
AtRelevanceCutoff(score2, pool) ==
    /\ 100 * score2 >= 65 * pool[1].score2
    /\ 4 * score2 >= FourP75(pool)

\* the candidates of the pool that reach the cutoff
AtCutoff(pool) == {i \in DOMAIN pool : AtRelevanceCutoff(pool[i].score2, pool)}

SimilarTitles(a, b) ==
    /\ TitleWords(a) # {}
    /\ TitleWords(b) # {}
    /\ 20 * Cardinality(TitleWords(a) \cap TitleWords(b))
          > 13 * Cardinality(TitleWords(a) \cup TitleWords(b))

AllHits == bm25_search(index, call.query_tokens, Len(docs_tokens), TRUE)

\* the documents of the first n items of a hit list
FirstDocs(hits, n) == {hits[i].doc_idx : i \in 1..Min(n, Len(hits))}

\* C23 as stated: every document among the top max(30, top_k * 5) BM25 hits
\* for the query is in the pool that receives score2.
C23_PoolOfThirtyOrFiveTopK ==
    call.op = "recommend" =>
        LET pool == CallPool
        IN  FirstDocs(AllHits, Max(30, call.top_k * 5))
              \subseteq {pool[j].doc_idx : j \in DOMAIN pool}

\* C23 amended: for top_k >= 0 the pool that receives score2 holds exactly the
\* top_k * 4 highest-scoring BM25 hits for the query (all of them when there
\* are fewer), and every returned item is one of them.
C23_PoolOfFourTopK ==
    (call.op = "recommend" /\ call.top_k >= 0) =>
        LET pool == CallPool
            pooled == {pool[j].doc_idx : j \in DOMAIN pool}
        IN  /\ pooled = FirstDocs(AllHits, 4 * call.top_k)
            /\ Len(pool) = Cardinality(pooled)
            /\ \A i \in DOMAIN call.result : call.result[i].doc_idx \in pooled

\* the query has more hits than the pool takes, and the result is not empty
C23_Witness ==
    /\ call.op = "recommend"
    /\ call.top_k >= 1
    /\ Len(AllHits) > 4 * call.top_k
    /\ Len(CallPool) = 4 * call.top_k
    /\ call.result # <<>>

-----------------------------------------------------------------------------
(* Properties of expand_query_from_top_docs *)

\* positions of the scanned hits (initial_hits[:top_docs]) that resolve
ResolvedHits ==
    {i \in 1..Min(call.top_docs, Len(call.initial_hits)) :
        call.initial_hits[i].doc_id \in DOMAIN docs_by_id}

HitTokens(i) == Range(docs_by_id[call.initial_hits[i].doc_id].tokens)

\* the terms that pass every filter of the scan
SurvivingTerms ==
    {t \in UNION {HitTokens(i) : i \in ResolvedHits} :
        /\ Len(t) > 2
        /\ t \notin GENERIC_TERMS
        /\ t \notin Range(call.query_tokens)
        /\ Cardinality({i \in ResolvedHits : t \in HitTokens(i)}) >= 2
        /\ call.idf.given =>
              (t \in DOMAIN call.idf.table /\ call.idf.table[t] >= 3500)}

\* C9: the result is the original query_tokens (order and duplicates kept)
\* followed by at most max_expand further terms, pairwise distinct and none of
\* them a query term.
C9_ExpandAppendsAtMostMaxExpand ==
    call.op = "expand" =>
        LET r == call.result
            q == call.query_tokens
            n == Len(q)
        IN  /\ Len(r) >= n
            /\ SubSeq(r, 1, n) = q
            /\ Len(r) - n <= call.max_expand
            /\ \A i, j \in (n + 1)..Len(r) : i # j => r[i] # r[j]
            /\ \A i \in (n + 1)..Len(r) : r[i] \notin Range(q)

C9_Witness ==
    /\ call.op = "expand"
    /\ call.max_expand = 1
    /\ Len(call.query_tokens) = 2
    /\ call.query_tokens[1] = call.query_tokens[2]
    /\ Len(call.result) = 3
    /\ Cardinality(SurvivingTerms) = 2

\* C10: the result equals query_tokens whenever no scanned hit resolves to a
\* document, and whenever no candidate term survives the filters.
C10_ExpandUnchangedWithoutCandidates ==
    (call.op = "expand" /\ (ResolvedHits = {} \/ SurvivingTerms = {})) =>
        call.result = call.query_tokens

C10_Witness ==
    /\ call.op = "expand"
    /\ call.max_expand >= 1
    /\ call.top_docs = 2
    /\ call.query_tokens # <<>>
    /\ call.initial_hits = <<[doc_id |-> None], [doc_id |-> "doc_3"]>>
    /\ call.result = call.query_tokens

\* the hits of the call that resolve to a document, in order
ResolvableHits ==
    SelectSeq(call.initial_hits, LAMBDA h : Resolves(docs_by_id, h))

\* the result of the call had it been given these hits instead
ExpandedFrom(hits) ==
    expand_query_from_top_docs(docs_by_id, hits, call.query_tokens,
                               call.max_expand, call.top_docs, call.idf)

\* C24 as stated: a hit that does not resolve is skipped without using up one
\* of the top_docs slots, so the scan covers the first top_docs hits that
\* resolve, wherever they are in initial_hits.
C24_SkippedHitsUseNoSlot ==
    call.op = "expand" => call.result = ExpandedFrom(ResolvableHits)

\* C24 amended: the scan covers the hits among the first top_docs entries of
\* initial_hits that resolve; a hit that does not resolve uses up its slot,
\* and no hit after position top_docs is scanned.
C24_SkippedHitsUseSlots ==
    call.op = "expand" =>
        LET n == Min(call.top_docs, Len(call.initial_hits))
            first == SubSeq(call.initial_hits, 1, n)
        IN  /\ call.result = ExpandedFrom(first)
            /\ call.result
                  = ExpandedFrom(SelectSeq(first, LAMBDA h : Resolves(docs_by_id, h)))

\* the first of three hits does not resolve, top_docs is 2, and the third hit,
\* which would have brought expansion terms, is not scanned
C24_Witness ==
    /\ call.op = "expand"
    /\ call.top_docs = 2
    /\ Len(call.initial_hits) = 3
    /\ ~Resolves(docs_by_id, call.initial_hits[1])
    /\ Len(ResolvableHits) = 2
    /\ call.result = call.query_tokens
    /\ Len(ExpandedFrom(ResolvableHits)) > Len(call.query_tokens)

\* the terms the call appended to the query
Appended ==
    {call.result[i] : i \in (Len(call.query_tokens) + 1)..Len(call.result)}

\* the distinct documents, among those the scanned hits resolve to, holding t
DocumentsHolding(t) ==
    {call.initial_hits[i].doc_id : i \in {j \in ResolvedHits : t \in HitTokens(j)}}

\* C25 as stated: every appended term is longer than 2, not generic, no query
\* term, and occurs in at least 2 distinct scanned documents; with an idf
\* table it has idf >= 0.35 in it, and with none no idf filtering is applied.
C25_AppendedTermsInTwoDocuments ==
    call.op = "expand" =>
        /\ \A t \in Appended :
              /\ Len(t) > 2
              /\ t \notin GENERIC_TERMS
              /\ t \notin Range(call.query_tokens)
              /\ Cardinality(DocumentsHolding(t)) >= 2
              /\ call.idf.given =>
                    (t \in DOMAIN call.idf.table /\ call.idf.table[t] >= 3500)
        /\ ~call.idf.given =>
              Cardinality(Appended)
                = Min(call.max_expand, Cardinality(SurvivingTerms))

\* C25 amended: as stated, but the document count is per scanned hit: the term
\* occurs in the documents of at least 2 scanned hits, and a document that two
\* hits resolve to counts twice.
C25_AppendedTermsInTwoHits ==
    call.op = "expand" =>
        /\ \A t \in Appended :
              /\ Len(t) > 2
              /\ t \notin GENERIC_TERMS
              /\ t \notin Range(call.query_tokens)
              /\ Cardinality({j \in ResolvedHits : t \in HitTokens(j)}) >= 2
              /\ call.idf.given =>
                    (t \in DOMAIN call.idf.table /\ call.idf.table[t] >= 3500)
        /\ ~call.idf.given =>
              Cardinality(Appended)
                = Min(call.max_expand, Cardinality(SurvivingTerms))

\* two hits resolve to the same document and a term of it alone is appended
C25_Witness ==
    /\ call.op = "expand"
    /\ Len(call.initial_hits) = 2
    /\ call.initial_hits[1] = call.initial_hits[2]
    /\ call.idf.given
    /\ call.idf.table # <<>>
    /\ \E t \in Appended : Cardinality(DocumentsHolding(t)) = 1

-----------------------------------------------------------------------------
(* Properties of recommend_supervisors *)

\* a supervisor recommendation has been computed from loaded profiles
SupervisorCall ==
    /\ call.op \in {"supervisors", "api_supervisors", "local_supervisors"}
    /\ sup_profiles # NoProfiles

\* the top_k that recommend_supervisors was called with
PassedTopK ==
    IF call.op = "api_supervisors" THEN Min(call.req_top_k, ApiSupervisorCap)
    ELSE call.top_k

\* the anchor terms of the query being served
CallAnchors ==
    Anchors(sup_profiles.idf,
            FirstOccurrences(SelectSeq(call.query_tokens, LAMBDA t : t # "")))

\* the stored profile of a supervisor
ProfileOf(dosen) ==
    CHOOSE p \in Range(sup_profiles.profiles) : p.dosen = dosen

\* the supervisor's vector has a positive weight for the term
Holds(p, term) == term \in DOMAIN p.vector /\ p.vector[term] > 0

\* the supervisors that survive anchor gating and noise dropping, ranked
CallScored == Scored(sup_profiles, call.query_tokens)

\* C11: whenever the anchor set of the query is not empty, every supervisor of
\* the returned list has a strictly positive vector weight for at least one
\* anchor term, on the cutoff-fallback path as well.
C11_AnchorGating ==
    SupervisorCall =>
        LET anchors == CallAnchors
        IN  anchors # <<>> =>
                \A i \in DOMAIN call.result :
                    \E a \in Range(anchors) :
                        Holds(ProfileOf(call.result[i].dosen), a)

\* the fallback path is taken with an anchor, and supervisors that share a
\* query term but no anchor are left out
C11_Witness ==
    /\ SupervisorCall
    /\ CallAnchors # <<>>
    /\ call.result # <<>>
    /\ \A i \in DOMAIN call.result : call.result[i].similarity < MinSimilarity
    /\ \E p \in Range(sup_profiles.profiles) :
          /\ \E t \in Range(call.query_tokens) : Holds(p, t)
          /\ \A a \in Range(CallAnchors) : ~Holds(p, a)
          /\ \A i \in DOMAIN call.result : call.result[i].dosen # p.dosen

\* C12: with cutoff = max(0.08, 0.35 * best similarity of the scored
\* supervisors), either every returned supervisor reaches the cutoff, or no
\* scored supervisor reaches it and the unfiltered ranking is returned; for
\* top_k >= 1 the result is not empty when a supervisor survives gating and
\* noise dropping.
C12_CutoffWithFallback ==
    SupervisorCall =>
        LET scored == CallScored
            best == BestSim(scored)
        IN  scored # <<>> =>
                /\ \/ \A i \in DOMAIN call.result :
                         ReachesCutoff(call.result[i].similarity, best)
                   \/ /\ \A i \in DOMAIN scored :
                            ~ReachesCutoff(scored[i].similarity, best)
                      /\ call.result = Slice(scored, PassedTopK)
                /\ PassedTopK >= 1 => call.result # <<>>

\* the fallback happens: supervisors are returned although none reaches 0.08
C12_Witness ==
    /\ SupervisorCall
    /\ PassedTopK >= 2
    /\ Len(call.result) >= 2
    /\ \A i \in DOMAIN call.result : call.result[i].similarity < MinSimilarity
    /\ call.result[1].similarity > call.result[2].similarity

\* C13 as stated: the function returns at most min(top_k, 20) supervisors for
\* every top_k >= 0, whatever the caller passes.
C13_AtMostMinTopK20 ==
    (SupervisorCall /\ PassedTopK >= 0) =>
        Len(call.result) <= Min(PassedTopK, ApiSupervisorCap)

\* C13, amended: the function returns at most top_k supervisors for every
\* top_k >= 0; the cap at 20 is the API endpoint's, whose response holds at
\* most min(req.top_k, 20) supervisors.
C13_AtMostTopKAndApiCap ==
    /\ (SupervisorCall /\ PassedTopK >= 0) => Len(call.result) <= PassedTopK
    /\ (SupervisorCall /\ call.op = "api_supervisors") =>
           Len(call.result) <= Min(call.req_top_k, ApiSupervisorCap)

\* a direct caller passes top_k beyond 20 and gets more than 20 supervisors
C13_Witness ==
    /\ SupervisorCall
    /\ call.op \in {"supervisors", "local_supervisors"}
    /\ call.top_k > ApiSupervisorCap
    /\ Len(call.result) = call.top_k

\* the terms of a profile with idf_supervisor >= 0.15
PassingTerms(p) == {t \in Range(p.terms) : sup_profiles.idf[t] >= 1500}

\* top is n terms of the set from, heaviest first, none lighter than a term
\* of from it leaves out
HeaviestOf(p, top, from, n) ==
    /\ Len(top) = n
    /\ Range(top) \subseteq from
    /\ \A i, j \in DOMAIN top : i < j => top[i] # top[j]
    /\ \A i, j \in DOMAIN top : i < j => p.vector[top[i]] >= p.vector[top[j]]
    /\ \A t \in from \ Range(top) :
           \A i \in DOMAIN top : p.vector[top[i]] >= p.vector[t]

\* C26 as stated: with 8 or more terms of idf >= 0.15, top_terms is the up to
\* 20 heaviest of them, heaviest first; with fewer, it is the unfiltered top
\* 25 terms by weight (all terms when there are fewer than 25).
C26_FallbackTopTwentyFive ==
    sup_profiles # NoProfiles =>
        \A k \in DOMAIN sup_profiles.profiles :
            LET p == sup_profiles.profiles[k]
                passing == PassingTerms(p)
            IN  IF Cardinality(passing) >= 8
                THEN HeaviestOf(p, p.top_terms, passing,
                                Min(20, Cardinality(passing)))
                ELSE HeaviestOf(p, p.top_terms, Range(p.terms),
                                Min(25, Len(p.terms)))

\* C26 amended: as stated, but on the fallback path top_terms is the
\* unfiltered top 20 terms by weight (all terms when there are fewer than 20).
C26_FallbackTopTwenty ==
    sup_profiles # NoProfiles =>
        \A k \in DOMAIN sup_profiles.profiles :
            LET p == sup_profiles.profiles[k]
                passing == PassingTerms(p)
            IN  IF Cardinality(passing) >= 8
                THEN HeaviestOf(p, p.top_terms, passing,
                                Min(20, Cardinality(passing)))
                ELSE HeaviestOf(p, p.top_terms, Range(p.terms),
                                Min(20, Len(p.terms)))

\* one supervisor has more than 20 terms and fewer than 8 passing ones,
\* another more than 20 passing ones, a third exactly 8
C26_Witness ==
    /\ sup_profiles # NoProfiles
    /\ \E k \in DOMAIN sup_profiles.profiles :
          LET p == sup_profiles.profiles[k]
          IN  /\ Cardinality(PassingTerms(p)) \in 1..7
              /\ Len(p.terms) > 20
              /\ Len(p.top_terms) = 20
              /\ Range(p.top_terms) \cap (Range(p.terms) \ PassingTerms(p)) # {}
    /\ \E k \in DOMAIN sup_profiles.profiles :
          LET p == sup_profiles.profiles[k]
          IN  Cardinality(PassingTerms(p)) > 20 /\ Len(p.top_terms) = 20
    /\ \E k \in DOMAIN sup_profiles.profiles :
          LET p == sup_profiles.profiles[k]
          IN  /\ Cardinality(PassingTerms(p)) = 8
              /\ Range(p.top_terms) = PassingTerms(p)

-----------------------------------------------------------------------------
(* Properties of requests served in parallel *)

\* the index as it was loaded at start-up
LoadedIndex ==
    build_bm25_index(TokensOf(ParallelCorpus), MetaOf(ParallelCorpus)).index

\* what the call of a task returns when it is the only one running
Alone(task) ==
    CASE task.op = "search" ->
           bm25_search(LoadedIndex, task.q0, task.top_k, task.flag)
      [] task.op = "recommend" ->
           recommend_citations(LoadedIndex, task.q0, task.top_k, task.flag)
      [] task.op = "expand" ->
           expand_query_from_top_docs(DocStore(ParallelCorpus), task.hits0, task.q0,
               PipelineMaxExpand, PipelineTopDocs,
               IF task.flag THEN [given |-> TRUE, table |-> LoadedIndex.idf]
               ELSE NoIdf)
      [] task.op = "supervisors" ->
           recommend_supervisors(build_supervisor_profiles(ThreeDosen),
                                 task.q0, task.top_k)
      [] OTHER ->
           citation_pipeline(LoadedIndex, DocStore(ParallelCorpus),
                             task.q0, task.top_k)

MetaKeys == {"doc_id", "judul", "keyword", "tanggal", "url"}

-----------------------------------------------------------------------------
(* Properties of the index contents and of dense scoring *)

\* C27 as stated: a term that occurs in more than half of the documents gets
\* idf[term] < 0.
C27_CommonTermNegativeIdf ==
    built = "ok" =>
        \A t \in DOMAIN index.idf :
            2 * index.vocab_df[t] > Len(docs_tokens) => index.idf[t] < 0

\* C27 amended: idf is positive for every term of every built index, also for
\* a term that occurs in more than half of the documents, and every search
\* result carries a positive score.
C27_IdfPositive ==
    /\ built = "ok" => \A t \in DOMAIN index.idf : index.idf[t] > 0
    /\ call.op = "search" =>
          \A i \in DOMAIN call.result : call.result[i].score > 0

\* a search for a term that every one of three documents holds
C27_Witness ==
    /\ call.op = "search"
    /\ Len(docs_tokens) = 3
    /\ \E t \in Range(call.query_tokens) :
          /\ t \in DOMAIN index.idf
          /\ index.vocab_df[t] = 3
          /\ index.idf[t] > 0
    /\ Len(call.query_tokens) = 1
    /\ Len(call.result) = 3

\* the term frequencies the postings record for document d (0-based), summed
RecordedTf(d) ==
    LET terms == CHOOSE s \in [1..Cardinality(DOMAIN index.postings)
                                 -> DOMAIN index.postings] :
                     \A i, j \in DOMAIN s : i # j => s[i] # s[j]
    IN  SumSeq([k \in DOMAIN terms |-> PostingTf(index, terms[k], d)])

\* C28 as stated: doc_len[i] equals the sum of the term frequencies recorded
\* for i over all postings lists (empty tokens left out of doc_len).
C28_DocLenIsRecordedTf ==
    built = "ok" =>
        \A i \in DOMAIN index.doc_len : index.doc_len[i] = RecordedTf(i - 1)

\* C28 amended: doc_len[i] is the number of tokens of document i, empty ones
\* included: the sum of the term frequencies recorded for i plus the number
\* of empty tokens of i; avgdl is the mean of these lengths.
C28_DocLenCountsEmptyTokens ==
    built = "ok" =>
        /\ \A i \in DOMAIN index.doc_len :
              index.doc_len[i] = RecordedTf(i - 1) + Count(docs_tokens[i], "")
        /\ index.avgdl.num * Max(1, Len(docs_tokens))
              = index.avgdl.den * SumSeq([i \in DOMAIN docs_tokens |->
                                            Len(docs_tokens[i])])

\* a document with an empty token is indexed
C28_Witness ==
    /\ built = "ok"
    /\ \E i \in DOMAIN docs_tokens :
          /\ Count(docs_tokens[i], "") = 1
          /\ index.doc_len[i] = 5
          /\ RecordedTf(i - 1) = 4
    /\ Len(docs_tokens) = 3

\* C29: get_scores(q)[d] is the score bm25_search(index, q, top_k = N) reports
\* for d when d is returned, and 0 for every document it does not return.
C29_DenseAgreesWithSparse ==
    call.op = "scores" =>
        LET N == Len(docs_tokens)
            s == call.result
            r == bm25_search(index, call.query_tokens, N, FALSE)
        IN  /\ Len(s) = N
            /\ \A i \in DOMAIN r : s[r[i].doc_idx + 1] = r[i].score
            /\ \A d \in 0..(N - 1) : d \notin ResultDocs(r) => s[d + 1] = 0

\* two query terms, a document holding both and a document holding one
C29_Witness ==
    /\ call.op = "scores"
    /\ Len(docs_tokens) = 3
    /\ Len(QTerms(call.query_tokens)) = 2
    /\ \E d \in 0..2 :
          /\ \A t \in Range(call.query_tokens) : PostingTf(index, t, d) > 0
          /\ call.result[d + 1] > 0
    /\ \E d \in 0..2 :
          /\ \E t \in Range(call.query_tokens) : PostingTf(index, t, d) = 0
          /\ call.result[d + 1] > 0

-----------------------------------------------------------------------------
(* Properties of the citation requests *)

\* C30: every call the repository makes to recommend_citations passes only
\* arguments the function accepts, so a citation request made while the BM25
\* index is loaded ends with a results list and never in an error state.
C30_CitationRequestsSucceed ==
    (call.op \in {"api_citations", "demo", "local_citations"} /\ built = "ok") =>
        call.error = "none"

=============================================================================
